---- MODULE Spec2Model ----
(***************************************************************************)
(* simpleRPC: one client connection and the server side of that            *)
(* connection (client.go, server.go, codec/gob.go), and dialTimeout.       *)
(*                                                                         *)
(* Spec      one Client (after NewClient) talking to one serveCodec loop.  *)
(* FairSpec  Spec with the fairness of the Go scheduler.                   *)
(* SpecDial  dialTimeout racing the handshake function against the timer.  *)
(***************************************************************************)
EXTENDS Integers, Sequences, FiniteSets, TLC

MaxCalls == 2
MaxTime == 2

Calls == 1..MaxCalls

\* ------------------------------------------------------------------ values

NoErr == ""
ErrShutdown == "connection is shut down"
ErrClosed == "use of closed network connection"
ErrPipe == "write: broken pipe"
ErrEOF == "EOF"
ErrMismatch == "gob: type mismatch"
ErrReadingBody == "reading body"
ErrCtx == "rpc client: call failed: context canceled"
ErrIllFormed == "rpc server: service/method request ill-formed"
ErrNoService == "rpc server: can't find service"
ErrNoMethod == "rpc server: can't find method"
ErrHandleTimeout == "rpc server: request handle timeout"
ErrHandler == "handler error"
ErrQuota == "quota at 100%"
ErrQuotaNoVerb == "quota at 100%!(NOVERB)"
ErrConnectTimeout == "rpc client: connect timeout"

\* Service names and method names are sequences of characters.
Dot == "."
Foo == <<"F">>
SumMethod == <<"S">>
FailMethod == <<"E">>

\* Server.serviceMap after Register(&foo): one service with two methods.
serviceMap == {Foo}
methods == {SumMethod, FailMethod}

\* The ServiceMethod strings callers pass.
ServiceMethods ==
    { <<"F", ".", "S">>, <<"F", ".", "E">>, <<"F">>, <<"B", ".", "S">>, <<"F", ".", "N">> }

\* The requests callers issue: the argument value is one the method's
\* argument type decodes ("good") or one it does not ("bad").
Requests ==
    { [sm |-> m, args |-> "good"] : m \in ServiceMethods }
        \cup { [sm |-> <<"F", ".", "S">>, args |-> "bad"] }

\* ------------------------------------------------------------------ state

VARIABLES
    seq, pending, closing, shutdown, sending,         \* Client fields
    req, cpc, callSeq, callErr, replyW,               \* Call records and their callers
    doneCh, result,
    rpc, rhdr, rcall, rerr,                           \* Client.receive
    c2s, s2c, cliClosed, srvClosed,                   \* the connection
    handleTimeout, spc, scur, ssending, loopErr,      \* Server.serveCodec
    reqSm, reqErr, hpc, wpc,                          \* requests and their goroutines
    assigned, fired, res, readSeqs, written,          \* history
    closeRet, dropped, wireLog, afterClose,
    dpc, fpc, connectTimeout, fDelay, fResult,        \* dialTimeout
    now, dialConn, dialRet,
    peer, hopt, hcpc, hspc, hc2s, hs2c,               \* NewClient against ServeConn
    sopt, hconnClosed, hwrote, hsent, hret,
    replyNil, bpc, sib, serr, cloned, bmu, e,         \* XClient.Broadcast
    replyDone, breply, bctx, observed, replyWrites, bheld, bret,
    timeout, rservers, rnow, last, lastSeen,          \* SimpleRegistry and Heartbeat
    hbpc, hbInterval, hbNext, hbPosts,
    heap, dservers, dmu, gpc, gout, atLock,           \* MultiServersDiscovery
    upc, updates,
    xclients, xmu, xcl, xpc, xaddr, xfound,           \* XClient
    xret, xdials, xcloses,
    sservers, sindex, sgets, sepoch,                  \* MultiServersDiscovery.Get
    rdpc, rdservers, rdtimeout, lastUpdate,           \* SimpleRegistryDiscovery
    rdnow, rdlast,
    klock, korder, kpc, kkind, kpending, kdone,       \* the mutexes of the Client
    kclosing, kshutdown, kconn, kwire, kresp, krhdr, krcall

clientVars == <<seq, pending, closing, shutdown, sending>>
callVars == <<req, cpc, callSeq, callErr, replyW, doneCh, result>>
recvVars == <<rpc, rhdr, rcall, rerr>>
connVars == <<c2s, s2c, cliClosed, srvClosed>>
serverVars == <<handleTimeout, spc, scur, ssending, loopErr, reqSm, reqErr, hpc, wpc>>
histVars == <<assigned, fired, res, readSeqs, written, closeRet, dropped, wireLog, afterClose>>
dialVars == <<dpc, fpc, connectTimeout, fDelay, fResult, now, dialConn, dialRet>>

hsVars == <<peer, hopt, hcpc, hspc, hc2s, hs2c, sopt, hconnClosed, hwrote, hsent, hret>>

\* The state of one client connection and its server side ...
rpcVars == <<clientVars, callVars, recvVars, connVars, serverVars, histVars>>
\* ... and the state of the operations that run apart from it.
bcVars == <<replyNil, bpc, sib, serr, cloned, bmu, e,
            replyDone, breply, bctx, observed, replyWrites, bheld, bret>>

regVars == <<timeout, rservers, rnow, last, lastSeen, hbpc, hbInterval, hbNext, hbPosts>>

discVars == <<heap, dservers, dmu, gpc, gout, atLock, upc, updates>>

xcVars == <<xclients, xmu, xcl, xpc, xaddr, xfound, xret, xdials, xcloses>>

selVars == <<sservers, sindex, sgets, sepoch>>

rdVars == <<rdpc, rdservers, rdtimeout, lastUpdate, rdnow, rdlast>>

lockVars == <<klock, korder, kpc, kkind, kpending, kdone, kclosing, kshutdown,
              kconn, kwire, kresp, krhdr, krcall>>

sideVars == <<dialVars, hsVars, bcVars, regVars, discVars, xcVars, selVars, rdVars, lockVars>>
notDial == <<rpcVars, hsVars, bcVars, regVars, discVars, xcVars, selVars, rdVars, lockVars>>
notHandshake == <<rpcVars, dialVars, bcVars, regVars, discVars, xcVars, selVars, rdVars, lockVars>>
notBroadcast == <<rpcVars, dialVars, hsVars, regVars, discVars, xcVars, selVars, rdVars, lockVars>>
notRegistry == <<rpcVars, dialVars, hsVars, bcVars, discVars, xcVars, selVars, rdVars, lockVars>>
notDiscovery == <<rpcVars, dialVars, hsVars, bcVars, regVars, xcVars, selVars, rdVars, lockVars>>

notXClient == <<rpcVars, dialVars, hsVars, bcVars, regVars, discVars, selVars, rdVars, lockVars>>

notSelect == <<rpcVars, dialVars, hsVars, bcVars, regVars, discVars, xcVars, rdVars, lockVars>>

notRegistryDiscovery == <<rpcVars, dialVars, hsVars, bcVars, regVars, discVars, xcVars, selVars, lockVars>>

notLocks == <<rpcVars, dialVars, hsVars, bcVars, regVars, discVars, xcVars, selVars, rdVars>>

vars == <<rpcVars, sideVars>>

\* ---------------------------------------------------------------- helpers

Free == <<"free", 0>>
NoRequest == [sm |-> <<>>, args |-> "good"]

\* strings.LastIndex(serviceMethod, "."): 0 when there is no dot.
RECURSIVE LastIndex(_, _)
LastIndex(s, n) ==
    IF n = 0 THEN 0
    ELSE IF s[n] = Dot THEN n ELSE LastIndex(s, n - 1)

\* Server.findService: the error of the lookup (NoErr when found).
findService(serviceMethod) ==
    LET dot == LastIndex(serviceMethod, Len(serviceMethod))
        serviceName == SubSeq(serviceMethod, 1, dot - 1)
        methodName == SubSeq(serviceMethod, dot + 1, Len(serviceMethod))
    IN  IF dot = 0 THEN ErrIllFormed
        ELSE IF serviceName \notin serviceMap THEN ErrNoService
        ELSE IF methodName \notin methods THEN ErrNoMethod
        ELSE NoErr

\* service.call: the error the method returns.
methodResult(serviceMethod) ==
    LET dot == LastIndex(serviceMethod, Len(serviceMethod))
    IN  IF SubSeq(serviceMethod, dot + 1, Len(serviceMethod)) = FailMethod
        THEN ErrQuota ELSE NoErr

\* The characters of the messages that have a "%" in them; the other
\* messages of the model have none.
spelling ==
    [m \in {ErrQuota, ErrQuotaNoVerb} |->
        IF m = ErrQuota
        THEN <<"q", "u", "o", "t", "a", " ", "a", "t", " ", "1", "0", "0", "%">>
        ELSE <<"q", "u", "o", "t", "a", " ", "a", "t", " ", "1", "0", "0", "%",
               "!", "(", "N", "O", "V", "E", "R", "B", ")">>]

\* fmt.Sprintf(format) without operands: "%%" gives "%", a "%" at the end
\* gives "%!(NOVERB)", a "%" before a verb x gives "%!x(MISSING)".
RECURSIVE Sprintf(_)
Sprintf(format) ==
    IF format = <<>> THEN <<>>
    ELSE IF Head(format) # "%" THEN <<Head(format)>> \o Sprintf(Tail(format))
    ELSE IF Len(format) = 1 THEN <<"%", "!", "(", "N", "O", "V", "E", "R", "B", ")">>
    ELSE IF format[2] = "%" THEN <<"%">> \o Sprintf(SubSeq(format, 3, Len(format)))
    ELSE <<"%", "!", format[2], "(", "M", "I", "S", "S", "I", "N", "G", ")">>
             \o Sprintf(SubSeq(format, 3, Len(format)))

\* Client.receive, line 125: the message of fmt.Errorf(h.Error).
Errorf(format) ==
    IF format \in DOMAIN spelling
    THEN CHOOSE m \in DOMAIN spelling : spelling[m] = Sprintf(spelling[format])
    ELSE format

\* cap(call.Done) of the channel Call and CallWithTimeout make.
DoneCap == 1

\* Call.done: call.Done <- call.
done(c) ==
    /\ doneCh[c] < DoneCap
    /\ doneCh' = [doneCh EXCEPT ![c] = @ + 1]
    /\ fired' = [fired EXCEPT ![c] = @ + 1]

\* The map a delete(client.pending, s) leaves.
without(s) == [x \in (DOMAIN pending) \ {s} |-> pending[x]]

\* Client.removeCall: the call stored under s (0 for nil) ...
removedCall(s) == IF s \in DOMAIN pending THEN pending[s] ELSE 0

\* ... and the table afterwards.
removeCall(s) ==
    pending' = without(s)

\* registerCall without client.seq++.
registerCallNoIncrement(c) ==
    /\ callSeq' = [callSeq EXCEPT ![c] = seq]
    /\ pending' = [x \in (DOMAIN pending) \cup {seq} |-> IF x = seq THEN c ELSE pending[x]]
    /\ seq' = seq
    /\ assigned' = Append(assigned, seq)

\* Client.registerCall, when it accepts the call.
registerCall(c) ==
    /\ callSeq' = [callSeq EXCEPT ![c] = seq]
    /\ pending' = [x \in (DOMAIN pending) \cup {seq} |-> IF x = seq THEN c ELSE pending[x]]
    /\ seq' = seq + 1
    /\ assigned' = Append(assigned, seq)

\* registerCall testing shutdown only.
registerRefusesOnlyShutdown == shutdown

\* Client.registerCall's refusal test.
registerRefuses == closing \/ shutdown

\* ------------------------------------------------------------ the client

\* A frame of the client: cc.Write(&client.header, call.Args) encodes the
\* header and then the body, two values of the gob stream.
headerItem(s, r) == [t |-> "hdr", seq |-> s, sm |-> r.sm, args |-> r.args]
bodyItem(s, r) == [t |-> "body", seq |-> s, sm |-> <<>>, args |-> r.args]

\* Client.send that unlocks the send mutex before it writes.
GoUnlocksBeforeWrite(c, r) ==
    /\ cpc[c] = "idle"
    /\ \A d \in Calls : d < c => cpc[d] # "idle"
    /\ sending = Free
    /\ afterClose' = [afterClose EXCEPT ![c] = closeRet.first # "none"]
    /\ IF registerRefuses
       THEN /\ callErr' = [callErr EXCEPT ![c] = ErrShutdown]
            /\ done(c)
            /\ res' = [res EXCEPT ![c] = @ \cup {"refused"}]
            /\ cpc' = [cpc EXCEPT ![c] = "wait"]
            /\ UNCHANGED <<seq, pending, sending, req, callSeq, assigned>>
       ELSE /\ registerCall(c)
            /\ sending' = Free
            /\ req' = [req EXCEPT ![c] = r]
            /\ cpc' = [cpc EXCEPT ![c] = "write"]
            /\ UNCHANGED <<callErr, doneCh, fired, res>>
    /\ UNCHANGED <<closing, shutdown, replyW, result>>
    /\ UNCHANGED <<recvVars, connVars, serverVars, sideVars>>
    /\ UNCHANGED <<readSeqs, written, closeRet, dropped, wireLog>>

\* Client.Go (also under Call and CallWithTimeout) into Client.send, lines
\* 271-285: the Call record is built, sending.Lock(), registerCall, and on a
\* refusal call.Error = err, call.done() and the deferred Unlock.
\* The caller then is at "wait": Call receives from call.Done,
\* CallWithTimeout selects, and a caller of Go may receive from Done later.
Go(c, r) ==
    /\ cpc[c] = "idle"
    /\ \A d \in Calls : d < c => cpc[d] # "idle"
    /\ sending = Free
    /\ afterClose' = [afterClose EXCEPT ![c] = closeRet.first # "none"]
    /\ IF registerRefuses
       THEN /\ callErr' = [callErr EXCEPT ![c] = ErrShutdown]
            /\ done(c)
            /\ res' = [res EXCEPT ![c] = @ \cup {"refused"}]
            /\ cpc' = [cpc EXCEPT ![c] = "wait"]
            /\ UNCHANGED <<seq, pending, sending, req, callSeq, assigned>>
       ELSE /\ registerCall(c)
            /\ sending' = <<"send", c>>
            /\ req' = [req EXCEPT ![c] = r]
            /\ cpc' = [cpc EXCEPT ![c] = "write"]
            /\ UNCHANGED <<callErr, doneCh, fired, res>>
    /\ UNCHANGED <<closing, shutdown, replyW, result>>
    /\ UNCHANGED <<recvVars, connVars, serverVars, sideVars>>
    /\ UNCHANGED <<readSeqs, written, closeRet, dropped, wireLog>>

\* Client.send, line 288 with a nil error: the frame is on the wire (a
\* peer that has closed reads nothing any more), then the deferred Unlock.
sendWrite(c) ==
    /\ cpc[c] = "write"
    /\ ~cliClosed
    /\ c2s' = IF srvClosed THEN c2s
              ELSE c2s \o <<headerItem(callSeq[c], req[c]), bodyItem(callSeq[c], req[c])>>
    /\ wireLog' = Append(wireLog, callSeq[c])
    /\ sending' = Free
    /\ req' = [req EXCEPT ![c] = NoRequest]
    /\ cpc' = [cpc EXCEPT ![c] = "wait"]
    /\ UNCHANGED <<seq, pending, closing, shutdown>>
    /\ UNCHANGED <<callSeq, callErr, replyW, doneCh, result>>
    /\ UNCHANGED <<recvVars, s2c, cliClosed, srvClosed, serverVars, sideVars>>
    /\ UNCHANGED <<assigned, fired, res, readSeqs, written, closeRet, dropped, afterClose>>

\* Client.send, lines 288-295 with a write error (the connection is closed
\* on this side, or the peer has closed it): GobCodec.Write closes the
\* connection, removeCall, call.Error = err, call.done(), Unlock.
sendWriteFails(c) ==
    /\ cpc[c] = "write"
    /\ cliClosed \/ srvClosed
    /\ cliClosed' = TRUE
    /\ removeCall(callSeq[c])
    /\ IF removedCall(callSeq[c]) # 0
       THEN /\ callErr' = [callErr EXCEPT ![removedCall(callSeq[c])] =
                               IF cliClosed THEN ErrClosed ELSE ErrPipe]
            /\ done(removedCall(callSeq[c]))
            /\ res' = [res EXCEPT ![removedCall(callSeq[c])] = @ \cup {"writefail"}]
       ELSE UNCHANGED <<callErr, doneCh, fired, res>>
    /\ sending' = Free
    /\ req' = [req EXCEPT ![c] = NoRequest]
    /\ cpc' = [cpc EXCEPT ![c] = "wait"]
    /\ UNCHANGED <<seq, closing, shutdown>>
    /\ UNCHANGED <<callSeq, replyW, result>>
    /\ UNCHANGED <<recvVars, c2s, s2c, srvClosed, serverVars, sideVars>>
    /\ UNCHANGED <<assigned, readSeqs, written, closeRet, dropped, wireLog, afterClose>>

\* Client.Call line 317 and the second case of CallWithTimeout's select:
\* the caller receives the call from call.Done and returns call.Error.
returnDone(c) ==
    /\ cpc[c] = "wait"
    /\ doneCh[c] > 0
    /\ doneCh' = [doneCh EXCEPT ![c] = @ - 1]
    /\ result' = [result EXCEPT ![c] = callErr[c]]
    /\ cpc' = [cpc EXCEPT ![c] = "ret"]
    /\ UNCHANGED <<clientVars, req, callSeq, callErr, replyW>>
    /\ UNCHANGED <<recvVars, connVars, serverVars, histVars, sideVars>>

\* CallWithTimeout returning on <-ctx.Done() without removeCall.
returnCancelledKeepsEntry(c) ==
    /\ cpc[c] = "wait"
    /\ result' = [result EXCEPT ![c] = ErrCtx]
    /\ res' = [res EXCEPT ![c] = @ \cup {"cancel"}]
    /\ cpc' = [cpc EXCEPT ![c] = "ret"]
    /\ UNCHANGED <<clientVars, req, callSeq, callErr, replyW, doneCh>>
    /\ UNCHANGED <<recvVars, connVars, serverVars, sideVars>>
    /\ UNCHANGED <<assigned, fired, readSeqs, written, closeRet, dropped, wireLog, afterClose>>

\* CallWithTimeout, lines 333-335: the context is cancelled or past its
\* deadline and the select takes <-ctx.Done(); removeCall(call.Seq), and the
\* error with ctx.Err() is returned.
returnCancelled(c) ==
    /\ cpc[c] = "wait"
    /\ removeCall(callSeq[c])
    /\ result' = [result EXCEPT ![c] = ErrCtx]
    /\ res' = [res EXCEPT ![c] = @ \cup {"cancel"}]
    /\ cpc' = [cpc EXCEPT ![c] = "ret"]
    /\ UNCHANGED <<seq, closing, shutdown, sending>>
    /\ UNCHANGED <<req, callSeq, callErr, replyW, doneCh>>
    /\ UNCHANGED <<recvVars, connVars, serverVars, sideVars>>
    /\ UNCHANGED <<assigned, fired, readSeqs, written, closeRet, dropped, wireLog, afterClose>>

\* Client.IsAvailable: the value it returns.
IsAvailable == ~shutdown /\ ~closing

\* Client.Close: the error it returns ...
closeResult == IF closing THEN ErrShutdown ELSE NoErr

\* Close marking the client shut down as well.
CloseSetsShutdown ==
    /\ closeRet' = IF closeRet.first = "none"
                   THEN [first |-> closeResult, later |-> "none"]
                   ELSE [closeRet EXCEPT !.later = closeResult]
    /\ IF closing
       THEN UNCHANGED <<closing, shutdown, cliClosed>>
       ELSE /\ closing' = TRUE
            /\ shutdown' = TRUE
            /\ cliClosed' = TRUE
    /\ UNCHANGED <<seq, pending, sending>>
    /\ UNCHANGED <<callVars, recvVars, c2s, s2c, srvClosed, serverVars, sideVars>>
    /\ UNCHANGED <<assigned, fired, res, readSeqs, written, dropped, wireLog, afterClose>>

\* ... and its effect: closing is set and the codec closed, unless closing
\* was set already. closeRet keeps what the first Close returned and what
\* the latest Close after it returned.
Close ==
    /\ closeRet' = IF closeRet.first = "none"
                   THEN [first |-> closeResult, later |-> "none"]
                   ELSE [closeRet EXCEPT !.later = closeResult]
    /\ IF closing
       THEN UNCHANGED <<closing, cliClosed>>
       ELSE /\ closing' = TRUE
            /\ cliClosed' = TRUE
    /\ UNCHANGED <<seq, pending, shutdown, sending>>
    /\ UNCHANGED <<callVars, recvVars, c2s, s2c, srvClosed, serverVars, sideVars>>
    /\ UNCHANGED <<assigned, fired, res, readSeqs, written, dropped, wireLog, afterClose>>

\* ---------------------------------------------------------- the receiver

\* Client.receive, lines 110-113: ReadHeader succeeds and removeCall(h.Seq)
\* takes the call out of the pending table.
receiveHeader ==
    /\ rpc = "read"
    /\ ~cliClosed
    /\ s2c # <<>>
    /\ rhdr' = Head(s2c)
    /\ s2c' = Tail(s2c)
    /\ rcall' = removedCall(Head(s2c).seq)
    /\ removeCall(Head(s2c).seq)
    /\ dropped' = IF removedCall(Head(s2c).seq) = 0
                  THEN dropped \cup {Head(s2c).seq} ELSE dropped
    /\ rpc' = "body"
    /\ UNCHANGED <<seq, closing, shutdown, sending, callVars, rerr>>
    /\ UNCHANGED <<c2s, cliClosed, srvClosed, serverVars, sideVars>>
    /\ UNCHANGED <<assigned, fired, res, readSeqs, written, closeRet, wireLog, afterClose>>

\* Client.receive, lines 119-134: ReadBody and call.done() in the three
\* cases of the switch. Decoding into call.Reply fails when the reply slot
\* does not fit the value sent (decodes); the loop then ends with that error.
receiveBody(decodes) ==
    /\ rpc = "body"
    /\ IF rcall = 0
       THEN /\ rpc' = "read"
            /\ UNCHANGED <<callErr, replyW, doneCh, fired, res, rerr>>
       ELSE IF rhdr.err # NoErr
       THEN /\ callErr' = [callErr EXCEPT ![rcall] = Errorf(rhdr.err)]
            /\ done(rcall)
            /\ res' = [res EXCEPT ![rcall] = @ \cup {"response"}]
            /\ rpc' = "read"
            /\ UNCHANGED <<replyW, rerr>>
       ELSE IF decodes
       THEN /\ replyW' = [replyW EXCEPT ![rcall] = @ + 1]
            /\ done(rcall)
            /\ res' = [res EXCEPT ![rcall] = @ \cup {"response"}]
            /\ rpc' = "read"
            /\ UNCHANGED <<callErr, rerr>>
       ELSE /\ callErr' = [callErr EXCEPT ![rcall] = ErrReadingBody]
            /\ done(rcall)
            /\ res' = [res EXCEPT ![rcall] = @ \cup {"response"}]
            /\ rerr' = ErrMismatch
            /\ rpc' = "term"
            /\ UNCHANGED replyW
    /\ UNCHANGED <<clientVars, req, cpc, callSeq, result>>
    /\ UNCHANGED <<rhdr, rcall, connVars, serverVars, sideVars>>
    /\ UNCHANGED <<assigned, readSeqs, written, closeRet, dropped, wireLog, afterClose>>

\* Client.receive, lines 110-112: ReadHeader fails, because this side has
\* closed the connection or the peer has and everything sent was read.
receiveFails ==
    /\ rpc = "read"
    /\ cliClosed \/ (s2c = <<>> /\ srvClosed)
    /\ rerr' = IF cliClosed THEN ErrClosed ELSE ErrEOF
    /\ rpc' = "term"
    /\ UNCHANGED <<clientVars, callVars, rhdr, rcall>>
    /\ UNCHANGED <<connVars, serverVars, histVars, sideVars>>

\* terminateCalls that sets shutdown and leaves the pending calls alone.
terminateCallsOnlyShutdown ==
    /\ rpc = "term"
    /\ sending = Free
    /\ shutdown' = TRUE
    /\ rpc' = "exit"
    /\ UNCHANGED <<seq, pending, closing, sending, callVars>>
    /\ UNCHANGED <<rhdr, rcall, rerr, connVars, serverVars, histVars, sideVars>>

\* Client.terminateCalls: both locks are taken, shutdown is set, every call
\* of client.pending gets the error and its done(); the deferred Unlocks run
\* and receive returns.
terminateCalls ==
    /\ rpc = "term"
    /\ sending = Free
    /\ shutdown' = TRUE
    /\ \A s \in DOMAIN pending : doneCh[pending[s]] < DoneCap
    /\ callErr' = [c \in Calls |->
                      IF \E s \in DOMAIN pending : pending[s] = c THEN rerr ELSE callErr[c]]
    /\ doneCh' = [c \in Calls |->
                     IF \E s \in DOMAIN pending : pending[s] = c THEN doneCh[c] + 1 ELSE doneCh[c]]
    /\ fired' = [c \in Calls |->
                    IF \E s \in DOMAIN pending : pending[s] = c THEN fired[c] + 1 ELSE fired[c]]
    /\ res' = [c \in Calls |->
                  IF \E s \in DOMAIN pending : pending[s] = c
                  THEN res[c] \cup {"terminate"} ELSE res[c]]
    /\ rpc' = "exit"
    /\ UNCHANGED <<seq, pending, closing, sending>>
    /\ UNCHANGED <<req, cpc, callSeq, replyW, result>>
    /\ UNCHANGED <<rhdr, rcall, rerr, connVars, serverVars, sideVars>>
    /\ UNCHANGED <<assigned, readSeqs, written, closeRet, dropped, wireLog, afterClose>>

\* ------------------------------------------------------------ the server

\* The responses written so far with the seq s.
responses(s) == {w \in written : w.seq = s}

\* sendResponse with a header whose Seq is not the request's.
sendResponseOtherSeq(s, by) ==
    /\ s2c' = IF cliClosed THEN s2c ELSE Append(s2c, [seq |-> s + 1, err |-> reqErr[s]])
    /\ written' = written \cup
           {[seq |-> s + 1, err |-> reqErr[s], by |-> by, n |-> Cardinality(responses(s + 1)) + 1]}
    /\ ssending' = Free

\* Server.sendResponse after sending.Lock(): cc.Write(h, body) with the
\* header of request s, then the deferred Unlock. A client that has closed
\* its side reads nothing any more. written keeps every frame written, the
\* n-th with a seq tagged n.
sendResponse(s, by) ==
    /\ s2c' = IF cliClosed THEN s2c ELSE Append(s2c, [seq |-> s, err |-> reqErr[s]])
    /\ written' = written \cup
           {[seq |-> s, err |-> reqErr[s], by |-> by, n |-> Cardinality(responses(s)) + 1]}
    /\ ssending' = Free

\* Server.readRequest and the branch serveCodec takes on its result:
\*  - the next value of the stream is not a header (the body that an earlier
\*    failed lookup left unread): ReadHeader fails, req is nil, break;
\*  - findService fails: the body is not read, an error response is due;
\*  - ReadBody fails: an error response is due;
\*  - otherwise wg.Add(1) and go handleRequestWithTimeout.
readRequest ==
    /\ spc = "read"
    /\ c2s # <<>>
    /\ LET h == Head(c2s)
           s == h.seq
       IN  IF h.t # "hdr"
           THEN /\ c2s' = Tail(c2s)
                /\ loopErr' = ErrMismatch
                /\ spc' = "wait"
                /\ UNCHANGED <<scur, reqSm, reqErr, hpc, wpc, readSeqs>>
           ELSE /\ readSeqs' = readSeqs \cup {s}
                /\ reqSm' = [reqSm EXCEPT ![s] = h.sm]
                /\ UNCHANGED loopErr
                /\ IF findService(h.sm) # NoErr
                   THEN /\ c2s' = Tail(c2s)
                        /\ reqErr' = [reqErr EXCEPT ![s] = findService(h.sm)]
                        /\ scur' = s
                        /\ spc' = "reply"
                        /\ UNCHANGED <<hpc, wpc>>
                   ELSE IF h.args = "bad"
                   THEN /\ c2s' = Tail(Tail(c2s))
                        /\ reqErr' = [reqErr EXCEPT ![s] = ErrMismatch]
                        /\ scur' = s
                        /\ spc' = "reply"
                        /\ UNCHANGED <<hpc, wpc>>
                   ELSE /\ c2s' = Tail(Tail(c2s))
                        /\ hpc' = [hpc EXCEPT ![s] =
                                      IF handleTimeout = 0 THEN "called" ELSE "select"]
                        /\ wpc' = [wpc EXCEPT ![s] = "call"]
                        /\ UNCHANGED <<reqErr, scur, spc>>
    /\ UNCHANGED <<clientVars, callVars, recvVars, s2c, cliClosed, srvClosed>>
    /\ UNCHANGED <<handleTimeout, ssending, sideVars>>
    /\ UNCHANGED <<assigned, fired, res, written, closeRet, dropped, wireLog, afterClose>>

\* Server.readRequestHeader at the end of the stream: the client has closed
\* and everything it sent was read; req is nil and serveCodec breaks.
readRequestEOF ==
    /\ spc = "read"
    /\ c2s = <<>>
    /\ cliClosed
    /\ loopErr' = ErrEOF
    /\ spc' = "wait"
    /\ UNCHANGED <<clientVars, callVars, recvVars, connVars, histVars, sideVars>>
    /\ UNCHANGED <<handleTimeout, scur, ssending, reqSm, reqErr, hpc, wpc>>

\* serveCodec, line 127: sendResponse of the request loop takes the mutex.
replyLock ==
    /\ spc = "reply"
    /\ ssending = Free
    /\ ssending' = <<"loop", 0>>
    /\ spc' = "replywrite"
    /\ UNCHANGED <<clientVars, callVars, recvVars, connVars, histVars, sideVars>>
    /\ UNCHANGED <<handleTimeout, scur, loopErr, reqSm, reqErr, hpc, wpc>>

\* serveCodec, lines 127-128: the error response is written; continue.
replyWrite ==
    /\ spc = "replywrite"
    /\ sendResponse(scur, "loop")
    /\ spc' = "read"
    /\ UNCHANGED <<clientVars, callVars, recvVars, c2s, cliClosed, srvClosed, sideVars>>
    /\ UNCHANGED <<handleTimeout, scur, loopErr, reqSm, reqErr, hpc, wpc>>
    /\ UNCHANGED <<assigned, fired, res, readSeqs, closeRet, dropped, wireLog, afterClose>>

\* handleRequestWithTimeout, line 216: the method returns in the worker.
methodReturns(s) ==
    /\ wpc[s] = "call"
    /\ wpc' = [wpc EXCEPT ![s] = "called"]
    /\ UNCHANGED <<clientVars, callVars, recvVars, connVars, histVars, sideVars>>
    /\ UNCHANGED <<handleTimeout, spc, scur, ssending, loopErr, reqSm, reqErr, hpc>>

\* called as a buffered channel: the worker's send never waits.
receivesCalledAlways(s) == TRUE

\* The dispatcher is ready to receive from the unbuffered channel called
\* (line 230, or the second case of the select of line 235).
receivesCalled(s) == hpc[s] \in {"called", "select"}

\* handleRequestWithTimeout, lines 217-219 and 230/239: the worker's send on
\* called meets the dispatcher's receive; the worker goes on to req.h.Error
\* and sendResponse, the dispatcher to <-sent.
calledSignal(s) ==
    /\ wpc[s] = "called"
    /\ receivesCalled(s)
    /\ hpc' = [hpc EXCEPT ![s] = IF @ \in {"called", "select"} THEN "sent" ELSE @]
    /\ reqErr' = [reqErr EXCEPT ![s] =
                     IF methodResult(reqSm[s]) # NoErr THEN methodResult(reqSm[s]) ELSE @]
    /\ wpc' = [wpc EXCEPT ![s] = "lock"]
    /\ UNCHANGED <<clientVars, callVars, recvVars, connVars, histVars, sideVars>>
    /\ UNCHANGED <<handleTimeout, spc, scur, ssending, loopErr, reqSm>>

\* A worker that writes its response without waiting for the send mutex.
workerLockNotAwaited(s) ==
    /\ wpc[s] = "lock"
    /\ ssending' = <<"worker", s>>
    /\ wpc' = [wpc EXCEPT ![s] = "write"]
    /\ UNCHANGED <<clientVars, callVars, recvVars, connVars, histVars, sideVars>>
    /\ UNCHANGED <<handleTimeout, spc, scur, loopErr, reqSm, reqErr, hpc>>

\* handleRequestWithTimeout, lines 220/225: sendResponse of the worker takes
\* the mutex.
workerLock(s) ==
    /\ wpc[s] = "lock"
    /\ ssending = Free
    /\ ssending' = <<"worker", s>>
    /\ wpc' = [wpc EXCEPT ![s] = "write"]
    /\ UNCHANGED <<clientVars, callVars, recvVars, connVars, histVars, sideVars>>
    /\ UNCHANGED <<handleTimeout, spc, scur, loopErr, reqSm, reqErr, hpc>>

\* handleRequestWithTimeout, lines 220/225: the worker's response is written.
workerWrite(s) ==
    /\ wpc[s] = "write"
    /\ sendResponse(s, "worker")
    /\ wpc' = [wpc EXCEPT ![s] = "sent"]
    /\ UNCHANGED <<clientVars, callVars, recvVars, c2s, cliClosed, srvClosed, sideVars>>
    /\ UNCHANGED <<handleTimeout, spc, scur, loopErr, reqSm, reqErr, hpc>>
    /\ UNCHANGED <<assigned, fired, res, readSeqs, closeRet, dropped, wireLog, afterClose>>

\* handleRequestWithTimeout, lines 221/226 and 231/240: the worker's send on
\* sent meets the dispatcher's receive; the worker ends, the dispatcher
\* returns and its deferred wg.Done() runs.
sentSignal(s) ==
    /\ wpc[s] = "sent"
    /\ hpc[s] = "sent"
    /\ wpc' = [wpc EXCEPT ![s] = "exit"]
    /\ hpc' = [hpc EXCEPT ![s] = "done"]
    /\ UNCHANGED <<clientVars, callVars, recvVars, connVars, histVars, sideVars>>
    /\ UNCHANGED <<handleTimeout, spc, scur, ssending, loopErr, reqSm, reqErr>>

\* handleRequestWithTimeout, lines 236-237: the select takes the timer;
\* req.h.Error is the timeout message.
handleTimeoutFires(s) ==
    /\ hpc[s] = "select"
    /\ reqErr' = [reqErr EXCEPT ![s] = ErrHandleTimeout]
    /\ hpc' = [hpc EXCEPT ![s] = "lock"]
    /\ UNCHANGED <<clientVars, callVars, recvVars, connVars, histVars, sideVars>>
    /\ UNCHANGED <<handleTimeout, spc, scur, ssending, loopErr, reqSm, wpc>>

\* handleRequestWithTimeout, line 238: sendResponse of the dispatcher takes
\* the mutex.
timeoutLock(s) ==
    /\ hpc[s] = "lock"
    /\ ssending = Free
    /\ ssending' = <<"dispatcher", s>>
    /\ hpc' = [hpc EXCEPT ![s] = "write"]
    /\ UNCHANGED <<clientVars, callVars, recvVars, connVars, histVars, sideVars>>
    /\ UNCHANGED <<handleTimeout, spc, scur, loopErr, reqSm, reqErr, wpc>>

\* The timeout branch closing the codec after its response.
timeoutWriteCloses(s) ==
    /\ hpc[s] = "write"
    /\ sendResponse(s, "dispatcher")
    /\ hpc' = [hpc EXCEPT ![s] = "done"]
    /\ srvClosed' = TRUE
    /\ UNCHANGED <<clientVars, callVars, recvVars, c2s, cliClosed, sideVars>>
    /\ UNCHANGED <<handleTimeout, spc, scur, loopErr, reqSm, reqErr, wpc>>
    /\ UNCHANGED <<assigned, fired, res, readSeqs, closeRet, dropped, wireLog, afterClose>>

\* handleRequestWithTimeout, line 238: the timeout response is written, the
\* dispatcher returns and its deferred wg.Done() runs.
timeoutWrite(s) ==
    /\ hpc[s] = "write"
    /\ sendResponse(s, "dispatcher")
    /\ hpc' = [hpc EXCEPT ![s] = "done"]
    /\ UNCHANGED <<clientVars, callVars, recvVars, c2s, cliClosed, srvClosed, sideVars>>
    /\ UNCHANGED <<handleTimeout, spc, scur, loopErr, reqSm, reqErr, wpc>>
    /\ UNCHANGED <<assigned, fired, res, readSeqs, closeRet, dropped, wireLog, afterClose>>

\* serveCodec closing the codec without wg.Wait().
serveCodecClosesNoWait ==
    /\ spc = "wait"
    /\ srvClosed' = TRUE
    /\ spc' = "closed"
    /\ UNCHANGED <<clientVars, callVars, recvVars, c2s, s2c, cliClosed, histVars, sideVars>>
    /\ UNCHANGED <<handleTimeout, scur, ssending, loopErr, reqSm, reqErr, hpc, wpc>>

\* serveCodec, lines 135-136: wg.Wait() returns and the codec is closed.
serveCodecCloses ==
    /\ spc = "wait"
    /\ \A s \in Calls : hpc[s] \in {"none", "done"}
    /\ srvClosed' = TRUE
    /\ spc' = "closed"
    /\ UNCHANGED <<clientVars, callVars, recvVars, c2s, s2c, cliClosed, histVars, sideVars>>
    /\ UNCHANGED <<handleTimeout, scur, ssending, loopErr, reqSm, reqErr, hpc, wpc>>

\* ------------------------------------------------------ the specification

NoResult == [client |-> "nil", err |-> "none"]

DialIdle ==
    /\ dpc = "off"
    /\ fpc = "off"
    /\ connectTimeout = 0
    /\ fDelay = 0
    /\ fResult = NoResult
    /\ now = 0
    /\ dialConn = "none"
    /\ dialRet = NoResult

\* No handshake is modelled: the connection starts after it.
HandshakeIdle ==
    /\ peer = "none"
    /\ hopt = [magic |-> 0, codec |-> "", handleTimeout |-> 0]
    /\ hcpc = "off"
    /\ hspc = "off"
    /\ hc2s = <<>>
    /\ hs2c = <<>>
    /\ sopt = [magic |-> 0, codec |-> "", handleTimeout |-> 0]
    /\ hconnClosed = FALSE
    /\ hwrote = <<>>
    /\ hsent = 0
    /\ hret = "none"

\* No Broadcast is running.
BroadcastIdle ==
    /\ replyNil = TRUE
    /\ bpc = "off"
    /\ sib = <<>>
    /\ serr = <<>>
    /\ cloned = <<>>
    /\ bmu = 0
    /\ e = NoErr
    /\ replyDone = TRUE
    /\ breply = 0
    /\ bctx = "live"
    /\ observed = <<>>
    /\ replyWrites = 0
    /\ bheld = 0
    /\ bret = "none"

\* No registry is modelled.
NoExchange ==
    [method |-> "", addr |-> "", status |-> 0, before |-> <<>>, got |-> {}, list |-> <<>>]

RegistryIdle ==
    /\ timeout = 0
    /\ rservers = <<>>
    /\ rnow = 0
    /\ last = NoExchange
    /\ lastSeen = <<>>
    /\ hbpc = "off"
    /\ hbInterval = 0
    /\ hbNext = 0
    /\ hbPosts = <<>>

\* No discovery is modelled.
DiscoveryIdle ==
    /\ heap = <<>>
    /\ dservers = 0
    /\ dmu = [writer |-> FALSE, readers |-> {}]
    /\ gpc = <<>>
    /\ gout = <<>>
    /\ atLock = <<>>
    /\ upc = "off"
    /\ updates = 0

\* No XClient is modelled.
XClientIdle ==
    /\ xclients = <<>>
    /\ xmu = FALSE
    /\ xcl = <<>>
    /\ xpc = <<>>
    /\ xaddr = <<>>
    /\ xfound = <<>>
    /\ xret = <<>>
    /\ xdials = 0
    /\ xcloses = 0

\* No Get is modelled.
SelectIdle ==
    /\ sservers = <<>>
    /\ sindex = 0
    /\ sgets = <<>>
    /\ sepoch = 0

\* No registry discovery is modelled.
NoCall == [op |-> "", ok |-> TRUE, header |-> <<>>, contacted |-> FALSE, err |-> NoErr, out |-> <<>>]

RegistryDiscoveryIdle ==
    /\ rdpc = "off"
    /\ rdservers = <<>>
    /\ rdtimeout = 0
    /\ lastUpdate = 0
    /\ rdnow = 0
    /\ rdlast = NoCall

\* No goroutine is modelled at the level of its Lock calls.
LocksIdle ==
    /\ klock = <<>>
    /\ korder = {}
    /\ kpc = <<>>
    /\ kkind = <<>>
    /\ kpending = {}
    /\ kdone = <<>>
    /\ kclosing = FALSE
    /\ kshutdown = FALSE
    /\ kconn = "none"
    /\ kwire = {}
    /\ kresp = {}
    /\ krhdr = 0
    /\ krcall = 0

\* The state of everything but the connection, when none of it runs.
SideIdle == DialIdle /\ HandshakeIdle /\ BroadcastIdle /\ RegistryIdle /\ DiscoveryIdle /\ XClientIdle /\ SelectIdle /\ RegistryDiscoveryIdle /\ LocksIdle

ConnInit ==
    /\ seq = 1
    /\ pending = << >>
    /\ closing = FALSE
    /\ shutdown = FALSE
    /\ sending = Free
    /\ req = [c \in Calls |-> NoRequest]
    /\ cpc = [c \in Calls |-> "idle"]
    /\ callSeq = [c \in Calls |-> 0]
    /\ callErr = [c \in Calls |-> NoErr]
    /\ replyW = [c \in Calls |-> 0]
    /\ doneCh = [c \in Calls |-> 0]
    /\ result = [c \in Calls |-> "none"]
    /\ rpc = "read"
    /\ rhdr = [seq |-> 0, err |-> NoErr]
    /\ rcall = 0
    /\ rerr = NoErr
    /\ c2s = <<>>
    /\ s2c = <<>>
    /\ cliClosed = FALSE
    /\ srvClosed = FALSE
    /\ spc = "read"
    /\ scur = 0
    /\ ssending = Free
    /\ loopErr = NoErr
    /\ reqSm = [s \in Calls |-> <<>>]
    /\ reqErr = [s \in Calls |-> NoErr]
    /\ hpc = [s \in Calls |-> "none"]
    /\ wpc = [s \in Calls |-> "none"]
    /\ assigned = <<>>
    /\ fired = [c \in Calls |-> 0]
    /\ res = [c \in Calls |-> {}]
    /\ readSeqs = {}
    /\ written = {}
    /\ closeRet = [first |-> "none", later |-> "none"]
    /\ dropped = {}
    /\ wireLog = <<>>
    /\ afterClose = [c \in Calls |-> FALSE]

\* The state after NewClient and ServeConn's handshake: newClientCodec has
\* set seq to 1 and started receive, serveCodec is at its first readRequest
\* with the HandleTimeout of the Option the client sent.
Init ==
    /\ ConnInit
    /\ handleTimeout \in {0, 1}
    /\ SideIdle

Next ==
    \/ \E c \in Calls, r \in Requests : Go(c, r)
    \/ \E c \in Calls : sendWrite(c)
    \/ \E c \in Calls : sendWriteFails(c)
    \/ \E c \in Calls : returnDone(c)
    \/ \E c \in Calls : returnCancelled(c)
    \/ Close
    \/ receiveHeader
    \/ \E decodes \in BOOLEAN : receiveBody(decodes)
    \/ receiveFails
    \/ terminateCalls
    \/ readRequest
    \/ readRequestEOF
    \/ replyLock
    \/ replyWrite
    \/ \E s \in Calls : methodReturns(s)
    \/ \E s \in Calls : calledSignal(s)
    \/ \E s \in Calls : workerLock(s)
    \/ \E s \in Calls : workerWrite(s)
    \/ \E s \in Calls : sentSignal(s)
    \/ \E s \in Calls : handleTimeoutFires(s)
    \/ \E s \in Calls : timeoutLock(s)
    \/ \E s \in Calls : timeoutWrite(s)
    \/ serveCodecCloses

Spec == Init /\ [][Next]_vars

\* The Go scheduler runs every goroutine that can run: a send that holds the
\* send mutex finishes its write, and terminateCalls gets the mutex once it
\* stays free.
FairSpec ==
    /\ Spec
    /\ WF_vars(terminateCalls)
    /\ \A c \in Calls : WF_vars(sendWrite(c) \/ sendWriteFails(c))

\* ------------------------------------------------------------ dialTimeout

\* What a newClientFunc returns: a client, an error, or (nil, nil) as the
\* function of TestClient_dialTimeout does.
HandshakeResults ==
    { [client |-> "client", err |-> NoErr],
      [client |-> "nil", err |-> "handshake error"],
      [client |-> "nil", err |-> NoErr] }

\* Time is counted in ticks from the start of dialTimeout. The handshake
\* function returns fDelay ticks after it was started (never, within the
\* ticks counted, when fDelay is beyond them); time.After(d) delivers at d.
Delays == 0..(MaxTime + 2)

\* dialTimeout without the ConnectTimeout == 0 case.
waitsWithoutTimerNever == FALSE

\* dialTimeout, lines 228-231: ConnectTimeout == 0 receives from ch only.
waitsWithoutTimer == connectTimeout = 0

\* dialTimeout, lines 205-226: net.DialTimeout, and when it succeeded the
\* goroutine that runs f and the wait for its result.
dialConnect(connected) ==
    /\ dpc = "dial"
    /\ IF connected
       THEN /\ dialConn' = "open"
            /\ fpc' = "run"
            /\ dpc' = IF waitsWithoutTimer THEN "receive" ELSE "select"
            /\ UNCHANGED dialRet
       ELSE /\ dialRet' = [client |-> "nil", err |-> "dial error"]
            /\ dpc' = "ret"
            /\ UNCHANGED <<dialConn, fpc>>
    /\ UNCHANGED <<connectTimeout, fDelay, fResult, now>>
    /\ UNCHANGED notDial

\* dialTimeout, lines 224-225: f returns and the goroutine reaches the send
\* on the unbuffered channel ch.
handshakeReturns ==
    /\ fpc = "run"
    /\ now = fDelay
    /\ fpc' = "send"
    /\ UNCHANGED <<dpc, connectTimeout, fDelay, fResult, now, dialConn, dialRet>>
    /\ UNCHANGED notDial

\* dialTimeout, lines 229-230 and 237-238: the result is received from ch
\* and returned; the deferred function closes conn when err is not nil.
dialReturnsResult ==
    /\ dpc \in {"receive", "select"}
    /\ fpc = "send"
    /\ fpc' = "exit"
    /\ dialRet' = fResult
    /\ dialConn' = IF fResult.err # NoErr THEN "closed" ELSE dialConn
    /\ dpc' = "ret"
    /\ UNCHANGED <<connectTimeout, fDelay, fResult, now>>
    /\ UNCHANGED notDial

\* dialTimeout, lines 234-236: the select takes <-time.After(ConnectTimeout);
\* the deferred function closes conn.
dialTimesOut ==
    /\ dpc = "select"
    /\ now >= connectTimeout
    /\ dialRet' = [client |-> "nil", err |-> ErrConnectTimeout]
    /\ dialConn' = "closed"
    /\ dpc' = "ret"
    /\ UNCHANGED <<fpc, connectTimeout, fDelay, fResult, now>>
    /\ UNCHANGED notDial

\* A goroutine that can run does so before the next tick.
canRun ==
    \/ dpc = "dial"
    \/ fpc = "run" /\ now = fDelay
    \/ dpc \in {"receive", "select"} /\ fpc = "send"
    \/ dpc = "select" /\ now >= connectTimeout

tick ==
    /\ dpc # "off"
    /\ ~canRun
    /\ now < MaxTime + 1
    /\ now' = now + 1
    /\ UNCHANGED <<dpc, fpc, connectTimeout, fDelay, fResult, dialConn, dialRet>>
    /\ UNCHANGED notDial

\* dialTimeout is entered with an Option whose ConnectTimeout is 0..MaxTime
\* ticks and a handshake function of any result and duration.
InitDial ==
    /\ ConnInit
    /\ handleTimeout = 0
    /\ LocksIdle
    /\ RegistryDiscoveryIdle
    /\ SelectIdle
    /\ XClientIdle
    /\ dpc = "dial"
    /\ fpc = "off"
    /\ connectTimeout \in 0..MaxTime
    /\ fDelay \in Delays
    /\ fResult \in HandshakeResults
    /\ now = 0
    /\ dialConn = "none"
    /\ dialRet = NoResult
    /\ HandshakeIdle
    /\ BroadcastIdle
    /\ RegistryIdle
    /\ DiscoveryIdle

NextDial ==
    \/ \E connected \in BOOLEAN : dialConnect(connected)
    \/ handshakeReturns
    \/ dialReturnsResult
    \/ dialTimesOut
    \/ tick

SpecDial == InitDial /\ [][NextDial]_vars

\* ------------------------------------------------ ServeConn and NewClient

MagicNumber == 3927900
GobType == "application/gob"
JsonType == "application/json"

\* codec.NewCodecFuncMap after init(): only the gob constructor.
NewCodecFuncMap == {GobType}

\* The requests the client sends once NewClient has returned it.
MaxFrames == 3

\* The Option values a peer puts in its preamble (MagicNumber, CodecType,
\* HandleTimeout), and the value Decode leaves in opt when the bytes are no
\* JSON object.
Options == [magic : {MagicNumber, 0}, codec : {GobType, JsonType}, handleTimeout : {0, 1}]
NoOption == [magic |-> 0, codec |-> "", handleTimeout |-> 0]

optItem(o) == [kind |-> "opt", opt |-> o]
junkItem == [kind |-> "junk", opt |-> NoOption]
frameItems(n) == << [kind |-> "hdr", opt |-> NoOption], [kind |-> "body", opt |-> NoOption] >>

\* NewClient, lines 142-147: an Option whose codec has no constructor is
\* refused before anything is written.
clientChecksCodec ==
    /\ hcpc = "start"
    /\ peer = "NewClient"
    /\ IF hopt.codec \in NewCodecFuncMap
       THEN hcpc' = "encode" /\ UNCHANGED hret
       ELSE hcpc' = "failed" /\ hret' = "invalid codec type"
    /\ UNCHANGED <<peer, hopt, hspc, hc2s, hs2c, sopt, hconnClosed, hwrote, hsent>>
    /\ UNCHANGED notHandshake

\* NewClient that takes what it has sent for the server's answer.
clientWritesOptionNoWait ==
    /\ hcpc = "encode"
    /\ hc2s' = Append(hc2s, optItem(hopt))
    /\ hcpc' = "ready"
    /\ UNCHANGED <<peer, hopt, hspc, hs2c, sopt, hconnClosed, hwrote, hsent, hret>>
    /\ UNCHANGED notHandshake

\* NewClient, lines 150-154: json.NewEncoder(conn).Encode(opt).
clientWritesOption ==
    /\ hcpc = "encode"
    /\ hc2s' = Append(hc2s, optItem(hopt))
    /\ hcpc' = "decode"
    /\ UNCHANGED <<peer, hopt, hspc, hs2c, sopt, hconnClosed, hwrote, hsent, hret>>
    /\ UNCHANGED notHandshake

\* A peer that is no Client writes a preamble of its own choice, then reads.
rawWritesPreamble(item) ==
    /\ hcpc = "start"
    /\ peer = "raw"
    /\ hc2s' = Append(hc2s, item)
    /\ hcpc' = "decode"
    /\ UNCHANGED <<peer, hopt, hspc, hs2c, sopt, hconnClosed, hwrote, hsent, hret>>
    /\ UNCHANGED notHandshake

\* NewClient, lines 157-163: json.NewDecoder(conn).Decode(opt) takes the
\* echo, and with it n - 1 of the items that were behind it in the stream
\* (the decoder reads ahead); newClientCodec then starts the receiver.
clientReadsEcho(n) ==
    /\ hcpc = "decode"
    /\ n \in 1..Len(hs2c)
    /\ IF hs2c[1].kind = "opt"
       THEN /\ hopt' = hs2c[1].opt
            /\ hcpc' = IF peer = "NewClient" THEN "ready" ELSE "done"
            /\ hret' = "client"
       ELSE /\ hcpc' = "failed"
            /\ hret' = "options error"
            /\ UNCHANGED hopt
    /\ hs2c' = SubSeq(hs2c, n + 1, Len(hs2c))
    /\ UNCHANGED <<peer, hspc, hc2s, sopt, hconnClosed, hwrote, hsent>>
    /\ UNCHANGED notHandshake

\* NewClient, lines 157-161: the server closed without an echo, Decode
\* returns io.EOF.
clientReadsEOF ==
    /\ hcpc = "decode"
    /\ hs2c = <<>>
    /\ hconnClosed
    /\ hcpc' = "failed"
    /\ hret' = ErrEOF
    /\ UNCHANGED <<peer, hopt, hspc, hc2s, hs2c, sopt, hconnClosed, hwrote, hsent>>
    /\ UNCHANGED notHandshake

\* Client.send on the new client: a request header and its body.
clientSends ==
    /\ hcpc = "ready"
    /\ hsent < MaxFrames
    /\ hsent' = hsent + 1
    /\ hc2s' = IF hconnClosed THEN hc2s ELSE hc2s \o frameItems(hsent + 1)
    /\ UNCHANGED <<peer, hopt, hcpc, hspc, hs2c, sopt, hconnClosed, hwrote, hret>>
    /\ UNCHANGED notHandshake

\* Client.receive on the new client: a response header and its body.
clientReceives ==
    /\ hcpc = "ready"
    /\ Len(hs2c) >= 2
    /\ hs2c' = SubSeq(hs2c, 3, Len(hs2c))
    /\ UNCHANGED <<peer, hopt, hcpc, hspc, hc2s, sopt, hconnClosed, hwrote, hsent, hret>>
    /\ UNCHANGED notHandshake

\* ServeConn's tests of the decoded Option, lines 73-83.
optionAccepted(o) == o.magic = MagicNumber /\ o.codec \in NewCodecFuncMap

\* ServeConn that tests the magic number only.
serverDecodesAnyCodec(n) ==
    /\ hspc = "decode"
    /\ n \in 1..Len(hc2s)
    /\ sopt' = hc2s[1].opt
    /\ hc2s' = SubSeq(hc2s, n + 1, Len(hc2s))
    /\ IF hc2s[1].kind = "opt" /\ hc2s[1].opt.magic = MagicNumber
       THEN hspc' = "echo" /\ UNCHANGED hconnClosed
       ELSE hspc' = "closed" /\ hconnClosed' = TRUE
    /\ UNCHANGED <<peer, hopt, hcpc, hs2c, hwrote, hsent, hret>>
    /\ UNCHANGED notHandshake

\* ServeConn, lines 63-87: json.NewDecoder(conn).Decode(&opt) takes the
\* preamble and n - 1 of the items behind it; a decode error, a wrong magic
\* number or a codec without constructor returns, and the deferred
\* function closes conn.
serverDecodes(n) ==
    /\ hspc = "decode"
    /\ n \in 1..Len(hc2s)
    /\ sopt' = hc2s[1].opt
    /\ hc2s' = SubSeq(hc2s, n + 1, Len(hc2s))
    /\ IF hc2s[1].kind = "opt" /\ optionAccepted(hc2s[1].opt)
       THEN hspc' = "echo" /\ UNCHANGED hconnClosed
       ELSE hspc' = "closed" /\ hconnClosed' = TRUE
    /\ UNCHANGED <<peer, hopt, hcpc, hs2c, hwrote, hsent, hret>>
    /\ UNCHANGED notHandshake

\* ServeConn, lines 90-95: json.NewEncoder(conn).Encode(opt), then
\* serveCodec.
serverEchoes ==
    /\ hspc = "echo"
    /\ hs2c' = Append(hs2c, optItem(sopt))
    /\ hwrote' = Append(hwrote, "echo")
    /\ hspc' = "serve"
    /\ UNCHANGED <<peer, hopt, hcpc, hc2s, sopt, hconnClosed, hsent, hret>>
    /\ UNCHANGED notHandshake

\* serveCodec: one request is read and answered; a stream that does not
\* start with a request header ends the loop and the connection.
serverServes ==
    /\ hspc = "serve"
    /\ Len(hc2s) >= 2
    /\ IF hc2s[1].kind = "hdr"
       THEN /\ hc2s' = SubSeq(hc2s, 3, Len(hc2s))
            /\ hs2c' = hs2c \o frameItems(0)
            /\ hwrote' = Append(hwrote, "frame")
            /\ UNCHANGED <<hspc, hconnClosed>>
       ELSE /\ hspc' = "closed"
            /\ hconnClosed' = TRUE
            /\ UNCHANGED <<hc2s, hs2c, hwrote>>
    /\ UNCHANGED <<peer, hopt, hcpc, sopt, hsent, hret>>
    /\ UNCHANGED notHandshake

\* A connection is accepted: ServeConn starts to decode while the peer, a
\* NewClient with some Option or another program, starts to write.
InitHandshake ==
    /\ ConnInit
    /\ handleTimeout = 0
    /\ LocksIdle
    /\ RegistryDiscoveryIdle
    /\ SelectIdle
    /\ XClientIdle
    /\ DialIdle
    /\ BroadcastIdle
    /\ RegistryIdle
    /\ DiscoveryIdle
    /\ peer \in {"NewClient", "raw"}
    /\ hopt \in Options
    /\ hcpc = "start"
    /\ hspc = "decode"
    /\ hc2s = <<>>
    /\ hs2c = <<>>
    /\ sopt = NoOption
    /\ hconnClosed = FALSE
    /\ hwrote = <<>>
    /\ hsent = 0
    /\ hret = "none"

NextHandshake ==
    \/ clientChecksCodec
    \/ clientWritesOption
    \/ \E item \in {optItem(hopt), junkItem} : rawWritesPreamble(item)
    \/ \E n \in 1..(2 * MaxFrames + 1) : clientReadsEcho(n)
    \/ clientReadsEOF
    \/ clientSends
    \/ clientReceives
    \/ \E n \in 1..(2 * MaxFrames + 1) : serverDecodes(n)
    \/ serverEchoes
    \/ serverServes

SpecHandshake == InitHandshake /\ [][NextHandshake]_vars

\* ------------------------------------------------------ XClient.Broadcast

\* The servers d.GetAll() returned: one sibling goroutine for each.
MaxServers == 2
Siblings == 1..MaxServers

\* The value the server of sibling i puts in the reply; 0 is the zero value
\* of the reply type.
replyOf(i) == i

\* xc.call, lines 62-65: xc.dial fails and the sibling has its error, or it
\* succeeds and the sibling enters CallWithTimeout.
siblingDials(ok) ==
    \E i \in Siblings :
        /\ sib[i] = "dial"
        /\ IF ok
           THEN sib' = [sib EXCEPT ![i] = "calling"] /\ UNCHANGED serr
           ELSE /\ sib' = [sib EXCEPT ![i] = "returned"]
                /\ serr' = [serr EXCEPT ![i] = "dial error"]
        /\ UNCHANGED <<replyNil, bpc, cloned, bmu, e, replyDone, breply, bctx>>
        /\ UNCHANGED <<observed, replyWrites, bheld, bret>>
        /\ UNCHANGED notBroadcast

\* CallWithTimeout, line 336: the sibling's call is done, with the reply
\* decoded into clonedReply or with the server's error.
siblingAnswered(ok) ==
    \E i \in Siblings :
        /\ sib[i] = "calling"
        /\ sib' = [sib EXCEPT ![i] = "returned"]
        /\ IF ok
           THEN /\ cloned' = [cloned EXCEPT ![i] = IF replyNil THEN 0 ELSE replyOf(i)]
                /\ UNCHANGED serr
           ELSE /\ serr' = [serr EXCEPT ![i] = ErrHandler]
                /\ UNCHANGED cloned
        /\ UNCHANGED <<replyNil, bpc, bmu, e, replyDone, breply, bctx>>
        /\ UNCHANGED <<observed, replyWrites, bheld, bret>>
        /\ UNCHANGED notBroadcast

\* CallWithTimeout, lines 333-335: the shared context is done.
siblingCancelled ==
    \E i \in Siblings :
        /\ sib[i] = "calling"
        /\ bctx = "cancelled"
        /\ sib' = [sib EXCEPT ![i] = "returned"]
        /\ serr' = [serr EXCEPT ![i] = ErrCtx]
        /\ UNCHANGED <<replyNil, bpc, cloned, bmu, e, replyDone, breply, bctx>>
        /\ UNCHANGED <<observed, replyWrites, bheld, bret>>
        /\ UNCHANGED notBroadcast

\* Broadcast, line 104: mu.Lock().
siblingLocks ==
    \E i \in Siblings :
        /\ sib[i] = "returned"
        /\ bmu = 0
        /\ bmu' = i
        /\ sib' = [sib EXCEPT ![i] = "locked"]
        /\ UNCHANGED <<replyNil, bpc, serr, cloned, e, replyDone, breply, bctx>>
        /\ UNCHANGED <<observed, replyWrites, bheld, bret>>
        /\ UNCHANGED notBroadcast

\* The aggregation without cancel().
aggregateNoCancel(i) ==
    /\ e' = IF serr[i] # NoErr /\ e = NoErr THEN serr[i] ELSE e
    /\ UNCHANGED bctx
    /\ IF serr[i] = NoErr /\ ~replyDone
       THEN /\ breply' = cloned[i]
            /\ replyDone' = TRUE
            /\ replyWrites' = replyWrites + 1
            /\ bheld' = bmu
       ELSE UNCHANGED <<breply, replyDone, replyWrites, bheld>>

\* The aggregation without the replyDone latch.
aggregateNoLatch(i) ==
    /\ e' = IF serr[i] # NoErr /\ e = NoErr THEN serr[i] ELSE e
    /\ bctx' = IF serr[i] # NoErr /\ e = NoErr THEN "cancelled" ELSE bctx
    /\ IF serr[i] = NoErr /\ ~replyNil
       THEN /\ breply' = cloned[i]
            /\ replyWrites' = replyWrites + 1
            /\ bheld' = bmu
            /\ UNCHANGED replyDone
       ELSE UNCHANGED <<breply, replyDone, replyWrites, bheld>>

\* Broadcast, lines 106-114: the first error is kept and cancels the
\* context; the first success is copied to reply.
aggregate(i) ==
    /\ e' = IF serr[i] # NoErr /\ e = NoErr THEN serr[i] ELSE e
    /\ bctx' = IF serr[i] # NoErr /\ e = NoErr THEN "cancelled" ELSE bctx
    /\ IF serr[i] = NoErr /\ ~replyDone
       THEN /\ breply' = cloned[i]
            /\ replyDone' = TRUE
            /\ replyWrites' = replyWrites + 1
            /\ bheld' = bmu
       ELSE UNCHANGED <<breply, replyDone, replyWrites, bheld>>

\* Broadcast, lines 106-115 and 97: the critical section, mu.Unlock() and
\* wg.Done().
siblingAggregates ==
    \E i \in Siblings :
        /\ sib[i] = "locked"
        /\ aggregate(i)
        /\ observed' = Append(observed, i)
        /\ bmu' = 0
        /\ sib' = [sib EXCEPT ![i] = "done"]
        /\ UNCHANGED <<replyNil, bpc, serr, cloned, bret>>
        /\ UNCHANGED notBroadcast

\* The context the caller passed is cancelled or reaches its deadline.
parentCancels ==
    /\ bpc = "wait"
    /\ bctx = "live"
    /\ bctx' = "cancelled"
    /\ UNCHANGED <<replyNil, bpc, sib, serr, cloned, bmu, e, replyDone, breply>>
    /\ UNCHANGED <<observed, replyWrites, bheld, bret>>
    /\ UNCHANGED notBroadcast

\* Broadcast, lines 119-120: wg.Wait() and return e.
broadcastReturns ==
    /\ bpc = "wait"
    /\ \A i \in Siblings : sib[i] = "done"
    /\ bret' = e
    /\ bpc' = "ret"
    /\ UNCHANGED <<replyNil, sib, serr, cloned, bmu, e, replyDone, breply, bctx>>
    /\ UNCHANGED <<observed, replyWrites, bheld>>
    /\ UNCHANGED notBroadcast

\* Broadcast, lines 82-117, has started one goroutine per server.
InitBroadcast ==
    /\ ConnInit
    /\ handleTimeout = 0
    /\ LocksIdle
    /\ RegistryDiscoveryIdle
    /\ SelectIdle
    /\ XClientIdle
    /\ DialIdle
    /\ HandshakeIdle
    /\ RegistryIdle
    /\ DiscoveryIdle
    /\ replyNil \in BOOLEAN
    /\ bpc = "wait"
    /\ sib = [i \in Siblings |-> "dial"]
    /\ serr = [i \in Siblings |-> NoErr]
    /\ cloned = [i \in Siblings |-> 0]
    /\ bmu = 0
    /\ e = NoErr
    /\ replyDone = replyNil
    /\ breply = 0
    /\ bctx = "live"
    /\ observed = <<>>
    /\ replyWrites = 0
    /\ bheld = 0
    /\ bret = "none"

NextBroadcast ==
    \/ \E ok \in BOOLEAN : siblingDials(ok)
    \/ \E ok \in BOOLEAN : siblingAnswered(ok)
    \/ siblingCancelled
    \/ siblingLocks
    \/ siblingAggregates
    \/ parentCancels
    \/ broadcastReturns

SpecBroadcast == InitBroadcast /\ [][NextBroadcast]_vars

\* Goroutines that can run do run and a dial comes to an end (XDial under
\* the ConnectTimeout); nothing makes a server answer.
FairSpecBroadcast ==
    /\ SpecBroadcast
    /\ WF_vars(\E ok \in BOOLEAN : siblingDials(ok))
    /\ WF_vars(siblingCancelled)
    /\ WF_vars(siblingLocks)
    /\ WF_vars(siblingAggregates)
    /\ WF_vars(broadcastReturns)

\* ------------------------------------------- SimpleRegistry and Heartbeat

\* Time is counted in minutes, up to MaxNow.
MaxNow == 6

\* registry.defaultTimeout, in minutes.
defaultTimeout == 5

\* The timeouts registries are made with: New(0), New(2 minutes) and the
\* DefaultSimpleRegister.
Timeouts == {0, 2, defaultTimeout}

\* The durations Heartbeat is called with.
Durations == {0, 1, defaultTimeout, defaultTimeout + 1}

\* The server that sends heartbeats and one that is posted by hand.
hbAddr == "tcp@A"
Headers == {"", "tcp@B"}
Methods == {"GET", "POST", "PUT"}

\* aliveServers that takes a timeout of 0 like any other.
entryAliveNoZero(start) == start + timeout > rnow

\* aliveServers, line 58: the test an entry passes to stay.
entryAlive(start) == timeout = 0 \/ start + timeout > rnow

\* aliveServers: the addresses it returns ...
aliveServers == {a \in DOMAIN rservers : entryAlive(rservers[a])}

\* aliveServers that deletes nothing.
notSwept == rservers

\* ... and the map it leaves, the other entries deleted.
swept == [a \in aliveServers |-> rservers[a]]

\* The order of the addresses as strings.
Less(a, b) == <<a, b>> \in {<<"tcp@A", "tcp@B">>}

\* aliveServers, lines 57-59: alive in the order the range over the map
\* takes, which is any.
RECURSIVE ranged(_)
ranged(addrs) ==
    IF addrs = {} THEN <<>>
    ELSE LET a == CHOOSE x \in addrs : TRUE
         IN  <<a>> \o ranged(addrs \ {a})

\* sort.Strings(alive), line 65.
RECURSIVE inserted(_, _)
inserted(a, sorted) ==
    IF sorted = <<>> THEN <<a>>
    ELSE IF Less(Head(sorted), a) THEN <<Head(sorted)>> \o inserted(a, Tail(sorted))
    ELSE <<a>> \o sorted

RECURSIVE sortStrings(_)
sortStrings(alive) ==
    IF alive = <<>> THEN <<>>
    ELSE inserted(Head(alive), sortStrings(Tail(alive)))

\* putServer that leaves the start of an entry it finds.
putServerKeepsStart(addr) ==
    [a \in (DOMAIN rservers) \cup {addr} |->
        IF a \in DOMAIN rservers THEN rservers[a] ELSE rnow]

\* putServer: the map with addr started now, new or not.
putServer(addr) ==
    [a \in (DOMAIN rservers) \cup {addr} |-> IF a = addr THEN rnow ELSE rservers[a]]

\* ServeHTTP: a GET sweeps in its first aliveServers() and returns the
\* second; a POST without address answers 500, one with an address puts
\* it; any other method answers 405. A status never written is 200.
ServeHTTP(method, addr) ==
    /\ rservers' = IF method = "GET" THEN swept
                   ELSE IF method = "POST" /\ addr # "" THEN putServer(addr)
                   ELSE rservers
    /\ last' = [method |-> method, addr |-> addr, before |-> rservers,
                status |-> IF method = "GET" THEN 200
                           ELSE IF method = "POST" THEN (IF addr = "" THEN 500 ELSE 200)
                           ELSE 405,
                got |-> IF method = "GET" THEN aliveServers ELSE {},
                list |-> IF method = "GET" THEN sortStrings(ranged(aliveServers)) ELSE <<>>]
    /\ lastSeen' = IF method = "POST" /\ addr # ""
                   THEN [a \in (DOMAIN lastSeen) \cup {addr} |->
                            IF a = addr THEN rnow ELSE lastSeen[a]]
                   ELSE lastSeen

\* A request of some client of the registry.
request(method, addr) ==
    /\ hbpc # "first"
    /\ ServeHTTP(method, addr)
    /\ UNCHANGED <<timeout, rnow, hbpc, hbInterval, hbNext, hbPosts>>
    /\ UNCHANGED notRegistry

\* Heartbeat, lines 101-103: the interval of the ticker.
interval(duration) ==
    IF duration = 0 \/ duration > defaultTimeout THEN defaultTimeout - 1 ELSE duration

\* sendHeartbeat: the POST reaches the registry, or httpClient.Do fails.
sendHeartbeat(ok) ==
    /\ hbPosts' = Append(hbPosts, [at |-> rnow, ok |-> ok])
    /\ IF ok THEN ServeHTTP("POST", hbAddr) ELSE UNCHANGED <<rservers, last, lastSeen>>

\* Heartbeat, lines 104-107: the first POST, then the goroutine with its
\* ticker; the loop is not entered when the first POST failed.
heartbeatFirst(ok) ==
    /\ hbpc = "first"
    /\ sendHeartbeat(ok)
    /\ hbpc' = IF ok THEN "loop" ELSE "stopped"
    /\ hbNext' = rnow + hbInterval
    /\ UNCHANGED <<timeout, rnow, hbInterval>>
    /\ UNCHANGED notRegistry

\* A heartbeat loop that goes on after a failed POST.
heartbeatTickGoesOn(ok) ==
    /\ hbpc = "loop"
    /\ rnow = hbNext
    /\ sendHeartbeat(ok)
    /\ hbNext' = hbNext + hbInterval
    /\ UNCHANGED <<timeout, rnow, hbpc, hbInterval>>
    /\ UNCHANGED notRegistry

\* Heartbeat, lines 108-111: a tick of the ticker, and the POST it sets off.
heartbeatTick(ok) ==
    /\ hbpc = "loop"
    /\ rnow = hbNext
    /\ sendHeartbeat(ok)
    /\ hbpc' = IF ok THEN "loop" ELSE "stopped"
    /\ hbNext' = hbNext + hbInterval
    /\ UNCHANGED <<timeout, rnow, hbInterval>>
    /\ UNCHANGED notRegistry

\* A minute passes; a POST that is due is sent before it does, and the
\* response of the last request has been taken.
minute ==
    /\ rnow < MaxNow
    /\ hbpc # "first"
    /\ ~(hbpc = "loop" /\ rnow = hbNext)
    /\ rnow' = rnow + 1
    /\ last' = NoExchange
    /\ UNCHANGED <<timeout, rservers, lastSeen, hbpc, hbInterval, hbNext, hbPosts>>
    /\ UNCHANGED notRegistry

\* A registry made by New(timeout), and a server that calls Heartbeat.
InitRegistry ==
    /\ ConnInit
    /\ handleTimeout = 0
    /\ LocksIdle
    /\ RegistryDiscoveryIdle
    /\ SelectIdle
    /\ XClientIdle
    /\ DialIdle
    /\ HandshakeIdle
    /\ BroadcastIdle
    /\ DiscoveryIdle
    /\ timeout \in Timeouts
    /\ rservers = <<>>
    /\ rnow = 0
    /\ last = NoExchange
    /\ lastSeen = <<>>
    /\ hbpc = "first"
    /\ hbInterval \in {interval(d) : d \in Durations}
    /\ hbNext = 0
    /\ hbPosts = <<>>

NextRegistry ==
    \/ \E method \in Methods, addr \in Headers : request(method, addr)
    \/ \E ok \in BOOLEAN : heartbeatFirst(ok)
    \/ \E ok \in BOOLEAN : heartbeatTick(ok)
    \/ minute

SpecRegistry == InitRegistry /\ [][NextRegistry]_vars

\* -------------------------------------------------- MultiServersDiscovery

\* The goroutines that call GetAll, each once, and the calls of Update.
MaxReaders == 2
MaxUpdates == 2
Readers == 1..MaxReaders

\* The server lists callers pass to NewMultiServerDiscovery and Update.
Lists == {<<>>, <<"tcp@A">>, <<"tcp@A", "tcp@B">>, <<"tcp@C", "tcp@A", "tcp@B">>}

\* A slice is the index of its array in heap: d.servers = servers makes
\* d.servers the caller's array, make([]string, n, n) a new one.
made(n) == [i \in 1..n |-> ""]

\* copy(dst, src): the first min(len(dst), len(src)) elements.
copied(dst, src) == [i \in 1..Len(dst) |-> IF i <= Len(src) THEN src[i] ELSE dst[i]]

\* GetAll, line 192: d.mu.RLock().
getAllLock(r) ==
    /\ gpc[r] = "idle"
    /\ ~dmu.writer
    /\ dmu' = [dmu EXCEPT !.readers = @ \cup {r}]
    /\ atLock' = [atLock EXCEPT ![r] = heap[dservers]]
    /\ gpc' = [gpc EXCEPT ![r] = "make"]
    /\ UNCHANGED <<heap, dservers, gout, upc, updates>>
    /\ UNCHANGED notDiscovery

\* GetAll, line 195: make([]string, len(d.servers), len(d.servers)).
getAllMake(r) ==
    /\ gpc[r] = "make"
    /\ heap' = Append(heap, made(Len(heap[dservers])))
    /\ gout' = [gout EXCEPT ![r] = Len(heap) + 1]
    /\ gpc' = [gpc EXCEPT ![r] = "copy"]
    /\ UNCHANGED <<dservers, dmu, atLock, upc, updates>>
    /\ UNCHANGED notDiscovery

\* GetAll, lines 193-197: copy(servers, d.servers), return and RUnlock.
getAllCopy(r) ==
    /\ gpc[r] = "copy"
    /\ heap' = [heap EXCEPT ![gout[r]] = copied(@, heap[dservers])]
    /\ dmu' = [dmu EXCEPT !.readers = @ \ {r}]
    /\ gpc' = [gpc EXCEPT ![r] = "done"]
    /\ UNCHANGED <<dservers, gout, atLock, upc, updates>>
    /\ UNCHANGED notDiscovery

\* Update that takes no lock.
updateLockNotTaken ==
    /\ upc = "idle"
    /\ updates < MaxUpdates
    /\ upc' = "locked"
    /\ UNCHANGED <<heap, dservers, dmu, gpc, gout, atLock, updates>>
    /\ UNCHANGED notDiscovery

\* Update, line 163: d.mu.Lock().
updateLock ==
    /\ upc = "idle"
    /\ updates < MaxUpdates
    /\ ~dmu.writer
    /\ dmu.readers = {}
    /\ dmu' = [dmu EXCEPT !.writer = TRUE]
    /\ upc' = "locked"
    /\ UNCHANGED <<heap, dservers, gpc, gout, atLock, updates>>
    /\ UNCHANGED notDiscovery

\* Update, lines 164-166: d.servers = servers, return and Unlock.
updateAssign(servers) ==
    /\ upc = "locked"
    /\ heap' = Append(heap, servers)
    /\ dservers' = Len(heap) + 1
    /\ dmu' = [dmu EXCEPT !.writer = FALSE]
    /\ updates' = updates + 1
    /\ upc' = "idle"
    /\ UNCHANGED <<gpc, gout, atLock>>
    /\ UNCHANGED notDiscovery

\* NewMultiServerDiscovery(servers), some goroutines about to call GetAll
\* and one about to call Update.
InitDiscovery ==
    /\ ConnInit
    /\ handleTimeout = 0
    /\ LocksIdle
    /\ RegistryDiscoveryIdle
    /\ SelectIdle
    /\ XClientIdle
    /\ DialIdle
    /\ HandshakeIdle
    /\ BroadcastIdle
    /\ RegistryIdle
    /\ heap \in {<<l>> : l \in Lists}
    /\ dservers = 1
    /\ dmu = [writer |-> FALSE, readers |-> {}]
    /\ gpc = [r \in Readers |-> "idle"]
    /\ gout = [r \in Readers |-> 0]
    /\ atLock = [r \in Readers |-> <<>>]
    /\ upc = "idle"
    /\ updates = 0

NextDiscovery ==
    \/ \E r \in Readers : getAllLock(r)
    \/ \E r \in Readers : getAllMake(r)
    \/ \E r \in Readers : getAllCopy(r)
    \/ updateLock
    \/ \E servers \in Lists : updateAssign(servers)

SpecDiscovery == InitDiscovery /\ [][NextDiscovery]_vars


\* ----------------------------------------------------- XClient.dial, Close

\* The goroutines that call xc.dial, and the calls of dial they make in all.
MaxDialers == 2
MaxDials == 3
Dialers == 1..MaxDialers
Addrs == {"tcp@A", "tcp@B"}

NoFound == [client |-> 0, available |-> FALSE]
NoDialed == [client |-> 0, err |-> "none"]

\* Client.IsAvailable of the k-th client XDial has made.
available(k) == ~xcl[k].shutdown /\ ~xcl[k].closing

\* Client.Close on some of the clients: closing is set.
closed(ks) == [k \in DOMAIN xcl |-> IF k \in ks THEN [xcl[k] EXCEPT !.closing = TRUE] ELSE xcl[k]]

\* xc.clients[rpcAddr]: the client stored (0 for nil).
cached(addr) == IF addr \in DOMAIN xclients THEN xclients[addr] ELSE 0

\* The map after delete(xc.clients, addr) ...
deleted(addr) == [a \in (DOMAIN xclients) \ {addr} |-> xclients[a]]

\* ... and after xc.clients[addr] = k.
stored(addr, k) == [a \in (DOMAIN xclients) \cup {addr} |-> IF a = addr THEN k ELSE xclients[a]]

\* dial that does not take xc.mu.
dialLockNotTaken(p, addr) ==
    /\ xpc[p] \in {"idle", "ret"}
    /\ xdials < MaxDials
    /\ xdials' = xdials + 1
    /\ xaddr' = [xaddr EXCEPT ![p] = addr]
    /\ xfound' = [xfound EXCEPT ![p] = NoFound]
    /\ xret' = [xret EXCEPT ![p] = NoDialed]
    /\ xpc' = [xpc EXCEPT ![p] = "lookup"]
    /\ UNCHANGED <<xclients, xmu, xcl, xcloses>>
    /\ UNCHANGED notXClient

\* XClient.dial, line 37: xc.mu.Lock().
dialLock(p, addr) ==
    /\ xpc[p] \in {"idle", "ret"}
    /\ xdials < MaxDials
    /\ ~xmu
    /\ xmu' = TRUE
    /\ xdials' = xdials + 1
    /\ xaddr' = [xaddr EXCEPT ![p] = addr]
    /\ xfound' = [xfound EXCEPT ![p] = NoFound]
    /\ xret' = [xret EXCEPT ![p] = NoDialed]
    /\ xpc' = [xpc EXCEPT ![p] = "lookup"]
    /\ UNCHANGED <<xclients, xcl, xcloses>>
    /\ UNCHANGED notXClient

\* XClient.dial, lines 40-48: the lookup; a client that is not available is
\* closed and deleted; an available one is returned (line 58, and the
\* deferred Unlock), otherwise XDial is next.
dialLookup(p) ==
    /\ xpc[p] = "lookup"
    /\ LET k == cached(xaddr[p])
       IN  /\ xfound' = [xfound EXCEPT ![p] =
                            [client |-> k, available |-> k # 0 /\ available(k)]]
           /\ IF k # 0 /\ ~available(k)
              THEN /\ xcl' = closed({k})
                   /\ xclients' = deleted(xaddr[p])
                   /\ xpc' = [xpc EXCEPT ![p] = "xdial"]
                   /\ UNCHANGED <<xmu, xret>>
              ELSE IF k # 0
              THEN /\ xret' = [xret EXCEPT ![p] = [client |-> k, err |-> NoErr]]
                   /\ xmu' = FALSE
                   /\ xpc' = [xpc EXCEPT ![p] = "ret"]
                   /\ UNCHANGED <<xcl, xclients>>
              ELSE /\ xpc' = [xpc EXCEPT ![p] = "xdial"]
                   /\ UNCHANGED <<xmu, xret, xcl, xclients>>
    /\ UNCHANGED <<xaddr, xdials, xcloses>>
    /\ UNCHANGED notXClient

\* XClient.dial, lines 50-58: XDial returns an error, which dial returns, or
\* a new client, which is stored and returned; the deferred Unlock.
dialXDial(p, ok) ==
    /\ xpc[p] = "xdial"
    /\ IF ok
       THEN /\ xcl' = Append(xcl, [addr |-> xaddr[p], closing |-> FALSE, shutdown |-> FALSE])
            /\ xclients' = stored(xaddr[p], Len(xcl) + 1)
            /\ xret' = [xret EXCEPT ![p] = [client |-> Len(xcl) + 1, err |-> NoErr]]
       ELSE /\ xret' = [xret EXCEPT ![p] = [client |-> 0, err |-> "dial error"]]
            /\ UNCHANGED <<xcl, xclients>>
    /\ xmu' = FALSE
    /\ xpc' = [xpc EXCEPT ![p] = "ret"]
    /\ UNCHANGED <<xaddr, xfound, xdials, xcloses>>
    /\ UNCHANGED notXClient

\* XClient.Close: under xc.mu every client of the map is closed and deleted.
XClientClose ==
    /\ ~xmu
    /\ xcloses < 1
    /\ xcloses' = xcloses + 1
    /\ xcl' = closed({xclients[a] : a \in DOMAIN xclients})
    /\ xclients' = <<>>
    /\ UNCHANGED <<xmu, xpc, xaddr, xfound, xret, xdials>>
    /\ UNCHANGED notXClient

\* The connection of a client ends: its receive runs terminateCalls, which
\* sets shutdown.
clientTornDown(k) ==
    /\ k \in DOMAIN xcl
    /\ ~xcl[k].shutdown
    /\ xcl' = [xcl EXCEPT ![k].shutdown = TRUE]
    /\ UNCHANGED <<xclients, xmu, xpc, xaddr, xfound, xret, xdials, xcloses>>
    /\ UNCHANGED notXClient

\* NewXClient, and some goroutines about to call dial.
InitXClient ==
    /\ ConnInit
    /\ handleTimeout = 0
    /\ LocksIdle
    /\ RegistryDiscoveryIdle
    /\ SelectIdle
    /\ DialIdle
    /\ HandshakeIdle
    /\ BroadcastIdle
    /\ RegistryIdle
    /\ DiscoveryIdle
    /\ xclients = <<>>
    /\ xmu = FALSE
    /\ xcl = <<>>
    /\ xpc = [p \in Dialers |-> "idle"]
    /\ xaddr = [p \in Dialers |-> ""]
    /\ xfound = [p \in Dialers |-> NoFound]
    /\ xret = [p \in Dialers |-> NoDialed]
    /\ xdials = 0
    /\ xcloses = 0

NextXClient ==
    \/ \E p \in Dialers, addr \in Addrs : dialLock(p, addr)
    \/ \E p \in Dialers : dialLookup(p)
    \/ \E p \in Dialers, ok \in BOOLEAN : dialXDial(p, ok)
    \/ XClientClose
    \/ \E k \in 1..MaxDials : clientTornDown(k)

SpecXClient == InitXClient /\ [][NextXClient]_vars


\* ----------------------------------------------- MultiServersDiscovery.Get

\* The calls of Get made in all.
MaxGets == 4

\* math.MaxInt32.
MaxInt32 == 2147483647

RandomSelect == 0
RoundRobinSelect == 1

\* The modes callers pass: the two that are defined and one that is not.
SelectModes == {RandomSelect, RoundRobinSelect, 2}

ErrNoServers == "rpc discovery: no available servers"
ErrSelectMode == "rpc discovery: not supported select mode"

\* NewMultiServerDiscovery, line 207: d.r.Intn(math.MaxInt32 - 1) is one of
\* 0 .. MaxInt32 - 2; these are the values the model starts with.
Indexes == {0, 1, 2, MaxInt32 - 2}

\* Get that leaves d.index where it is.
roundRobinStays(n) == sindex

\* Get, line 183: d.index = (d.index + 1) % n.
roundRobinNext(n) == (sindex + 1) % n

\* Get, under d.mu: the error for an empty list, servers[r.Intn(n)],
\* servers[index % n] and the step of the index, or the error for another
\* mode. sgets keeps, for every call, d.index and the list as Get found
\* them, the position it used and what it returned.
Get(mode, rnd) ==
    /\ Len(sgets) < MaxGets
    /\ LET n == Len(sservers)
           pos == IF mode = RandomSelect THEN rnd ELSE sindex % n
           ok == n # 0 /\ mode \in {RandomSelect, RoundRobinSelect}
       IN  /\ n # 0 /\ mode = RandomSelect => rnd \in 0..(n - 1)
           /\ n = 0 \/ mode # RandomSelect => rnd = 0
           /\ sgets' = Append(sgets,
                  [mode |-> mode, index |-> sindex, servers |-> sservers, epoch |-> sepoch,
                   pos |-> IF ok THEN pos ELSE 0,
                   server |-> IF ok THEN sservers[pos + 1] ELSE "",
                   err |-> IF n = 0 THEN ErrNoServers
                           ELSE IF ok THEN NoErr ELSE ErrSelectMode])
           /\ sindex' = IF n # 0 /\ mode = RoundRobinSelect THEN roundRobinNext(n) ELSE sindex
    /\ UNCHANGED <<sservers, sepoch>>
    /\ UNCHANGED notSelect

\* Update, under d.mu: d.servers = servers; d.index stays.
Update(servers) ==
    /\ sepoch < MaxUpdates
    /\ servers # sservers
    /\ sservers' = servers
    /\ sepoch' = sepoch + 1
    /\ UNCHANGED <<sindex, sgets>>
    /\ UNCHANGED notSelect

\* NewMultiServerDiscovery(servers).
InitSelect ==
    /\ ConnInit
    /\ handleTimeout = 0
    /\ LocksIdle
    /\ RegistryDiscoveryIdle
    /\ DialIdle
    /\ HandshakeIdle
    /\ BroadcastIdle
    /\ RegistryIdle
    /\ DiscoveryIdle
    /\ XClientIdle
    /\ sservers \in Lists
    /\ sindex \in Indexes
    /\ sgets = <<>>
    /\ sepoch = 0

NextSelect ==
    \/ \E mode \in SelectModes, rnd \in 0..2 : Get(mode, rnd)
    \/ \E servers \in Lists : Update(servers)

SpecSelect == InitSelect /\ [][NextSelect]_vars


\* ------------------------------------------------ SimpleRegistryDiscovery

\* Time is counted in seconds from NewSimpleRegistryDiscovery, up to MaxClock.
MaxClock == 3

\* xclient.defaultUpdateTimeout, in seconds.
defaultUpdateTimeout == 10

\* The timeouts NewSimpleRegistryDiscovery is called with.
UpdateTimeouts == {0, 1, 2}

\* The zero time.Time of a lastUpdate never set: longer ago than any timeout.
ZeroTime == 0 - (defaultUpdateTimeout + 1)

ErrFetch == "Get: connection refused"

\* Addresses and header values are sequences of characters.
Comma == ","
Space == " "

\* The values of X-Simplerpc-Servers the registry answers with; <<>> is
\* also what resp.Header.Get returns for a response without the header.
ServerHeaders ==
    { <<>>,
      <<"A">>,
      <<"A", ",", "B">>,
      <<" ", "A", ",", " ", ",", "B", " ">>,
      <<",", " ">> }

\* strings.Split(s, ","): the pieces between the commas, "" giving [""].
RECURSIVE Split(_)
Split(s) ==
    IF \A i \in DOMAIN s : s[i] # Comma THEN <<s>>
    ELSE LET i == CHOOSE j \in DOMAIN s : s[j] = Comma /\ \A k \in 1..(j - 1) : s[k] # Comma
         IN  <<SubSeq(s, 1, i - 1)>> \o Split(SubSeq(s, i + 1, Len(s)))

\* strings.TrimSpace(s).
RECURSIVE TrimSpace(_)
TrimSpace(s) ==
    IF s = <<>> THEN s
    ELSE IF s[1] = Space THEN TrimSpace(Tail(s))
    ELSE IF s[Len(s)] = Space THEN TrimSpace(SubSeq(s, 1, Len(s) - 1))
    ELSE s

\* Refresh, lines 56-61: the pieces that are not blank, trimmed, in order.
RECURSIVE appended(_)
appended(servers) ==
    IF servers = <<>> THEN <<>>
    ELSE IF TrimSpace(Head(servers)) # <<>>
         THEN <<TrimSpace(Head(servers))>> \o appended(Tail(servers))
         ELSE appended(Tail(servers))

\* Refresh that takes a list for fresh at the moment it expires.
cacheFreshAtExpiry == lastUpdate + rdtimeout >= rdnow

\* Refresh, line 44: d.lastUpdate.Add(d.timeout).After(time.Now()).
cacheFresh == lastUpdate + rdtimeout > rdnow

\* Refresh, under d.mu: nothing when the list is fresh; otherwise http.Get,
\* whose error is returned, or the list of the header and lastUpdate = now.
\* ok and header are the outcome of http.Get.
RefreshErr(ok) == IF cacheFresh \/ ok THEN NoErr ELSE ErrFetch

Refresh(ok, header) ==
    IF cacheFresh \/ ~ok
    THEN UNCHANGED <<rdservers, lastUpdate>>
    ELSE /\ rdservers' = appended(Split(header))
         /\ lastUpdate' = rdnow

\* A call of Refresh.
callRefresh(ok, header) ==
    /\ rdpc = "run"
    /\ Refresh(ok, header)
    /\ rdlast' = [op |-> "Refresh", ok |-> ok, header |-> header, contacted |-> ~cacheFresh,
                  err |-> RefreshErr(ok), out |-> <<>>]
    /\ UNCHANGED <<rdpc, rdtimeout, rdnow>>
    /\ UNCHANGED notRegistryDiscovery

\* SimpleRegistryDiscovery.Get(RandomSelect): the error of Refresh, or
\* what MultiServersDiscovery.Get returns on the list Refresh left.
callGet(ok, header, rnd) ==
    /\ rdpc = "run"
    /\ Refresh(ok, header)
    /\ rnd \in 1..Len(rdservers') \/ (rnd = 0 /\ (RefreshErr(ok) # NoErr \/ rdservers' = <<>>))
    /\ rdlast' = [op |-> "Get", ok |-> ok, header |-> header, contacted |-> ~cacheFresh,
                  err |-> IF RefreshErr(ok) # NoErr THEN RefreshErr(ok)
                          ELSE IF rdservers' = <<>> THEN ErrNoServers ELSE NoErr,
                  out |-> IF RefreshErr(ok) # NoErr \/ rnd = 0 THEN <<>> ELSE <<rdservers'[rnd]>>]
    /\ UNCHANGED <<rdpc, rdtimeout, rdnow>>
    /\ UNCHANGED notRegistryDiscovery

\* SimpleRegistryDiscovery.GetAll: the error of Refresh, or a copy of the
\* list Refresh left.
callGetAll(ok, header) ==
    /\ rdpc = "run"
    /\ Refresh(ok, header)
    /\ rdlast' = [op |-> "GetAll", ok |-> ok, header |-> header, contacted |-> ~cacheFresh,
                  err |-> RefreshErr(ok),
                  out |-> IF RefreshErr(ok) # NoErr THEN <<>> ELSE rdservers']
    /\ UNCHANGED <<rdpc, rdtimeout, rdnow>>
    /\ UNCHANGED notRegistryDiscovery

\* SimpleRegistryDiscovery.Update: the list given, and lastUpdate = now.
callUpdate(servers) ==
    /\ rdpc = "run"
    /\ rdservers' = servers
    /\ lastUpdate' = rdnow
    /\ rdlast' = [op |-> "Update", ok |-> TRUE, header |-> <<>>, contacted |-> FALSE,
                  err |-> NoErr, out |-> <<>>]
    /\ UNCHANGED <<rdpc, rdtimeout, rdnow>>
    /\ UNCHANGED notRegistryDiscovery

\* A second passes; the result of the last call has been taken.
second ==
    /\ rdpc = "run"
    /\ rdnow < MaxClock
    /\ rdnow' = rdnow + 1
    /\ rdlast' = NoCall
    /\ UNCHANGED <<rdpc, rdservers, rdtimeout, lastUpdate>>
    /\ UNCHANGED notRegistryDiscovery

\* NewSimpleRegistryDiscovery(registerAddr, timeout): an empty list, a
\* timeout of 0 replaced by defaultUpdateTimeout, lastUpdate the zero time.
InitRegistryDiscovery ==
    /\ ConnInit
    /\ handleTimeout = 0
    /\ LocksIdle
    /\ DialIdle
    /\ HandshakeIdle
    /\ BroadcastIdle
    /\ RegistryIdle
    /\ DiscoveryIdle
    /\ XClientIdle
    /\ SelectIdle
    /\ rdpc = "run"
    /\ rdservers = <<>>
    /\ rdtimeout \in {IF t = 0 THEN defaultUpdateTimeout ELSE t : t \in UpdateTimeouts}
    /\ lastUpdate = ZeroTime
    /\ rdnow = 0
    /\ rdlast = NoCall

NextRegistryDiscovery ==
    \/ \E ok \in BOOLEAN, header \in ServerHeaders : callRefresh(ok, header)
    \/ \E ok \in BOOLEAN, header \in ServerHeaders, rnd \in 0..2 : callGet(ok, header, rnd)
    \/ \E ok \in BOOLEAN, header \in ServerHeaders : callGetAll(ok, header)
    \/ \E servers \in {<<>>, << <<"C">> >>} : callUpdate(servers)
    \/ second

SpecRegistryDiscovery == InitRegistryDiscovery /\ [][NextRegistryDiscovery]_vars


\* ------------------------------------------ the two mutexes of the Client

\* The goroutines: the callers of Call and CallWithTimeout, one call each,
\* the goroutine of receive and the one that calls Close.
Receiver == MaxCalls + 1
Closer == MaxCalls + 2
Goroutines == Calls \cup {Receiver}
Mutexes == {"sending", "mu"}
CallKinds == {"Call", "CallWithTimeout"}

\* The mutexes t holds.
holds(t) == {l \in Mutexes : klock[l] = t}

\* l.Lock() by t, which waits while l is held; korder keeps which mutex was
\* held when which was taken.
Lock(t, l) ==
    /\ klock[l] = 0
    /\ korder' = korder \cup {<<h, l>> : h \in holds(t)}

\* terminateCalls taking the pending-table mutex first.
terminateOrderReversed == <<"mu", "sending">>

\* terminateCalls, lines 94 and 96: the mutexes in the order it takes them.
terminateOrder == <<"sending", "mu">>

\* Client.send, line 271: client.sending.Lock().
sendLock(c) ==
    /\ kpc[c] = "idle"
    /\ Lock(c, "sending")
    /\ klock' = [klock EXCEPT !["sending"] = c]
    /\ kpc' = [kpc EXCEPT ![c] = "register"]
    /\ UNCHANGED <<kkind, kpending, kdone, kclosing, kshutdown, kconn, kwire, kresp, krhdr, krcall>>
    /\ UNCHANGED notLocks

\* Client.send, line 275: registerCall under client.mu.
sendRegister(c) ==
    /\ kpc[c] = "register"
    /\ Lock(c, "mu")
    /\ IF kclosing \/ kshutdown
       THEN /\ kpc' = [kpc EXCEPT ![c] = "refused"]
            /\ UNCHANGED kpending
       ELSE /\ kpending' = kpending \cup {c}
            /\ kpc' = [kpc EXCEPT ![c] = "write"]
    /\ UNCHANGED <<klock, kkind, kdone, kclosing, kshutdown, kconn, kwire, kresp, krhdr, krcall>>
    /\ UNCHANGED notLocks

\* Client.send, lines 277-279 and 292-294: call.done(), then the deferred
\* sending.Unlock().
sendDone(c) ==
    /\ kpc[c] \in {"refused", "failed"}
    /\ kdone[c] < DoneCap
    /\ kdone' = [kdone EXCEPT ![c] = @ + 1]
    /\ klock' = [klock EXCEPT !["sending"] = 0]
    /\ kpc' = [kpc EXCEPT ![c] = "wait"]
    /\ UNCHANGED <<korder, kkind, kpending, kclosing, kshutdown, kconn, kwire, kresp, krhdr, krcall>>
    /\ UNCHANGED notLocks

\* Client.send, line 288: cc.Write; it fails on a closed connection, and
\* then closes it.
sendWrites(c) ==
    /\ kpc[c] = "write"
    /\ IF kconn = "open"
       THEN /\ kwire' = kwire \cup {c}
            /\ klock' = [klock EXCEPT !["sending"] = 0]
            /\ kpc' = [kpc EXCEPT ![c] = "wait"]
       ELSE /\ kpc' = [kpc EXCEPT ![c] = "remove"]
            /\ UNCHANGED <<kwire, klock>>
    /\ UNCHANGED <<korder, kkind, kpending, kdone, kclosing, kshutdown, kconn, kresp, krhdr, krcall>>
    /\ UNCHANGED notLocks

\* Client.send, lines 289-291: removeCall under client.mu; a nil call means
\* no done, and the deferred sending.Unlock().
sendRemoves(c) ==
    /\ kpc[c] = "remove"
    /\ Lock(c, "mu")
    /\ kpending' = kpending \ {c}
    /\ IF c \in kpending
       THEN /\ kpc' = [kpc EXCEPT ![c] = "failed"]
            /\ UNCHANGED klock
       ELSE /\ kpc' = [kpc EXCEPT ![c] = "wait"]
            /\ klock' = [klock EXCEPT !["sending"] = 0]
    /\ UNCHANGED <<kkind, kdone, kclosing, kshutdown, kconn, kwire, kresp, krhdr, krcall>>
    /\ UNCHANGED notLocks

\* Call, line 317, and CallWithTimeout, line 336: the receive from Done.
callReturns(c) ==
    /\ kpc[c] = "wait"
    /\ kdone[c] > 0
    /\ kdone' = [kdone EXCEPT ![c] = @ - 1]
    /\ kpc' = [kpc EXCEPT ![c] = "ret"]
    /\ UNCHANGED <<klock, korder, kkind, kpending, kclosing, kshutdown, kconn, kwire, kresp, krhdr, krcall>>
    /\ UNCHANGED notLocks

\* CallWithTimeout, lines 333-335: <-ctx.Done(), removeCall under client.mu.
callCancelled(c) ==
    /\ kpc[c] = "wait"
    /\ kkind[c] = "CallWithTimeout"
    /\ Lock(c, "mu")
    /\ kpending' = kpending \ {c}
    /\ kpc' = [kpc EXCEPT ![c] = "ret"]
    /\ UNCHANGED <<klock, kkind, kdone, kclosing, kshutdown, kconn, kwire, kresp, krhdr, krcall>>
    /\ UNCHANGED notLocks

\* Client.Close, under client.mu.
closeLocked ==
    /\ Lock(Closer, "mu")
    /\ ~kclosing
    /\ kclosing' = TRUE
    /\ kconn' = "closed"
    /\ UNCHANGED <<klock, kpc, kkind, kpending, kdone, kshutdown, kwire, kresp, krhdr, krcall>>
    /\ UNCHANGED notLocks

\* The server answers a request it has read, or the connection breaks.
serverAnswers(c) ==
    /\ c \in kwire
    /\ kconn = "open"
    /\ kwire' = kwire \ {c}
    /\ kresp' = kresp \cup {c}
    /\ UNCHANGED <<klock, korder, kpc, kkind, kpending, kdone, kclosing, kshutdown, kconn, krhdr, krcall>>
    /\ UNCHANGED notLocks

connectionBreaks ==
    /\ kconn = "open"
    /\ kconn' = "closed"
    /\ UNCHANGED <<klock, korder, kpc, kkind, kpending, kdone, kclosing, kshutdown, kwire, kresp, krhdr, krcall>>
    /\ UNCHANGED notLocks

\* Client.receive, line 110: ReadHeader returns a header, or an error.
receiveReads(c) ==
    /\ kpc[Receiver] = "read"
    /\ kconn = "open"
    /\ c \in kresp
    /\ kresp' = kresp \ {c}
    /\ krhdr' = c
    /\ kpc' = [kpc EXCEPT ![Receiver] = "remove"]
    /\ UNCHANGED <<klock, korder, kkind, kpending, kdone, kclosing, kshutdown, kconn, kwire, krcall>>
    /\ UNCHANGED notLocks

receiveReadFails ==
    /\ kpc[Receiver] = "read"
    /\ kconn = "closed"
    /\ kpc' = [kpc EXCEPT ![Receiver] = "term"]
    /\ UNCHANGED <<klock, korder, kkind, kpending, kdone, kclosing, kshutdown, kconn, kwire, kresp, krhdr, krcall>>
    /\ UNCHANGED notLocks

\* Client.receive, line 113: removeCall under client.mu.
receiveRemoves ==
    /\ kpc[Receiver] = "remove"
    /\ Lock(Receiver, "mu")
    /\ krcall' = IF krhdr \in kpending THEN krhdr ELSE 0
    /\ kpending' = kpending \ {krhdr}
    /\ kpc' = [kpc EXCEPT ![Receiver] = "body"]
    /\ UNCHANGED <<klock, kkind, kdone, kclosing, kshutdown, kconn, kwire, kresp, krhdr>>
    /\ UNCHANGED notLocks

\* Client.receive, lines 119-134: ReadBody and, for a call, call.done(); an
\* error of ReadBody ends the loop.
receiveDone(decodes) ==
    /\ kpc[Receiver] = "body"
    /\ IF krcall = 0
       THEN UNCHANGED kdone
       ELSE /\ kdone[krcall] < DoneCap
            /\ kdone' = [kdone EXCEPT ![krcall] = @ + 1]
    /\ kpc' = [kpc EXCEPT ![Receiver] = IF decodes THEN "read" ELSE "term"]
    /\ UNCHANGED <<klock, korder, kkind, kpending, kclosing, kshutdown, kconn, kwire, kresp, krhdr, krcall>>
    /\ UNCHANGED notLocks

\* terminateCalls, lines 94-97: the two Locks, one after the other.
terminateLocks ==
    /\ kpc[Receiver] \in {"term", "term2"}
    /\ LET l == IF kpc[Receiver] = "term" THEN terminateOrder[1] ELSE terminateOrder[2]
       IN  /\ Lock(Receiver, l)
           /\ klock' = [klock EXCEPT ![l] = Receiver]
    /\ kpc' = [kpc EXCEPT ![Receiver] = IF kpc[Receiver] = "term" THEN "term2" ELSE "loop"]
    /\ UNCHANGED <<kkind, kpending, kdone, kclosing, kshutdown, kconn, kwire, kresp, krhdr, krcall>>
    /\ UNCHANGED notLocks

\* terminateCalls, lines 98-102: shutdown, a done() for every pending call,
\* then the deferred Unlocks.
terminateLoop ==
    /\ kpc[Receiver] = "loop"
    /\ kshutdown' = TRUE
    /\ \A c \in kpending : kdone[c] < DoneCap
    /\ kdone' = [c \in Calls |-> IF c \in kpending THEN kdone[c] + 1 ELSE kdone[c]]
    /\ klock' = [l \in Mutexes |-> 0]
    /\ kpc' = [kpc EXCEPT ![Receiver] = "exit"]
    /\ UNCHANGED <<korder, kkind, kpending, kclosing, kconn, kwire, kresp, krhdr, krcall>>
    /\ UNCHANGED notLocks

\* A client after NewClient, with callers about to call.
InitLocks ==
    /\ ConnInit
    /\ handleTimeout = 0
    /\ DialIdle
    /\ HandshakeIdle
    /\ BroadcastIdle
    /\ RegistryIdle
    /\ DiscoveryIdle
    /\ XClientIdle
    /\ SelectIdle
    /\ RegistryDiscoveryIdle
    /\ klock = [l \in Mutexes |-> 0]
    /\ korder = {}
    /\ kpc = [t \in Goroutines |-> IF t = Receiver THEN "read" ELSE "idle"]
    /\ kkind \in [Calls -> CallKinds]
    /\ kpending = {}
    /\ kdone = [c \in Calls |-> 0]
    /\ kclosing = FALSE
    /\ kshutdown = FALSE
    /\ kconn = "open"
    /\ kwire = {}
    /\ kresp = {}
    /\ krhdr = 0
    /\ krcall = 0

sendSteps(c) == sendLock(c) \/ sendRegister(c) \/ sendDone(c) \/ sendWrites(c) \/ sendRemoves(c)

receiveSteps ==
    \/ \E c \in Calls : receiveReads(c)
    \/ receiveReadFails
    \/ receiveRemoves
    \/ \E decodes \in BOOLEAN : receiveDone(decodes)
    \/ terminateLocks
    \/ terminateLoop

NextLocks ==
    \/ \E c \in Calls : sendSteps(c)
    \/ \E c \in Calls : callReturns(c)
    \/ \E c \in Calls : callCancelled(c)
    \/ closeLocked
    \/ \E c \in Calls : serverAnswers(c)
    \/ connectionBreaks
    \/ receiveSteps

SpecLocks == InitLocks /\ [][NextLocks]_vars

\* The scheduler runs every goroutine that can take a step: a caller inside
\* send, and the receiver.
FairSpecLocks ==
    /\ SpecLocks
    /\ \A c \in Calls : WF_vars(sendSteps(c))
    /\ WF_vars(receiveSteps)

\* ------------------------------------------------------------- properties

\* registerCall gave the call a seq (call.Seq is 0 until then).
Registered(c) == callSeq[c] # 0

\* C1: the sequence numbers registerCall assigns on a client start at 1 and
\* each is strictly greater than every one assigned before it; no sequence
\* number is assigned to two calls.
SeqStrictlyMonotonic ==
    /\ assigned # <<>> => assigned[1] = 1
    /\ \A i, j \in DOMAIN assigned : i < j => assigned[i] < assigned[j]
    /\ \A c, d \in Calls : Registered(c) /\ Registered(d) /\ c # d => callSeq[c] # callSeq[d]

TwoCallsPending ==
    /\ Len(assigned) = 2
    /\ Cardinality(DOMAIN pending) = 2

\* C2: of the terminal transitions of a call (registration refused, write
\* failure in send, response matched by the receiver, cancellation in
\* CallWithTimeout, terminateCalls) at most one takes effect, and its Done is
\* fired at most once.
CallResolvesOnce ==
    \A c \in Calls : Cardinality(res[c]) <= 1 /\ fired[c] <= 1

\* C3: every response frame the server writes carries the seq of a request
\* header it has read on the connection, and the response the receiver
\* completes a call with carries the seq the call was sent with.
ResponseSeqIsRequestSeq ==
    /\ \A w \in written : w.seq \in readSeqs
    /\ \A i \in DOMAIN s2c : s2c[i].seq \in readSeqs
    /\ rcall # 0 => rhdr.seq = callSeq[rcall]

CallCompletedByResponse ==
    \E c \in Calls :
        /\ res[c] = {"response"}
        /\ callErr[c] = NoErr
        /\ replyW[c] = 1
        /\ result[c] = NoErr
        /\ \E w \in written : w.seq = callSeq[c] /\ w.by = "worker"

HandleTimeoutKeepsConnection ==
    /\ \A w \in written : w.by = "dispatcher" =>
          /\ handleTimeout # 0
          /\ w.err = ErrHandleTimeout
          /\ w.seq \in readSeqs
    /\ \A c \in Calls :
          /\ "response" \in res[c]
          /\ \E w \in responses(callSeq[c]) : w.by = "dispatcher"
          => callErr[c] = ErrHandleTimeout
    /\ spc \in {"wait", "closed"} => loopErr \in {ErrEOF, ErrMismatch}
    /\ srvClosed => spc = "closed"

CallAnsweredAfterTimeout ==
    /\ result[1] = ErrHandleTimeout
    /\ \E w \in responses(callSeq[1]) : w.by = "dispatcher"
    /\ result[2] = NoErr
    /\ replyW[2] = 1
    /\ \E w \in responses(callSeq[2]) : w.by = "worker" /\ w.err = NoErr
    /\ ~srvClosed
    /\ spc = "read"

\* C6: at most one response frame is written for a request, whether the
\* timer or the method-return signal wins the select.
AtMostOneResponse ==
    \A s \in 0..(MaxCalls + 1) : Cardinality(responses(s)) <= 1

LateMethodResultDiscarded ==
    \E s \in Calls :
        /\ hpc[s] = "done"
        /\ wpc[s] = "called"
        /\ \E w \in responses(s) : w.by = "dispatcher"

\* C7: when the select of CallWithTimeout takes the context, the call's seq
\* is not in the pending table afterwards, closing, shutdown and the
\* connection are as before, and a response with that seq read after the
\* removal finds no call and is dropped: no done, no reply, no Error.
CancelledCallDropped ==
    [][\A c \in Calls :
          /\ cpc[c] = "wait" /\ result'[c] = ErrCtx =>
                /\ closing' = closing
                /\ shutdown' = shutdown
                /\ cliClosed' = cliClosed
          /\ result'[c] = ErrCtx => callSeq'[c] \notin DOMAIN pending'
          /\ /\ result[c] = ErrCtx
             /\ Registered(c)
             /\ rpc = "read"
             /\ rpc' = "body"
             /\ rhdr'.seq = callSeq[c]
             => rcall' = 0
          /\ rpc = "body" /\ rcall = 0 /\ rpc' # "body" =>
                /\ fired' = fired
                /\ replyW' = replyW
                /\ callErr' = callErr
      ]_vars

LateResponseDropped ==
    \E c \in Calls :
        /\ result[c] = ErrCtx
        /\ callSeq[c] \in dropped
        /\ rpc = "read"
        /\ fired[c] = 0
        /\ replyW[c] = 0
        /\ ~closing
        /\ ~shutdown

\* C8: once connected, dialTimeout with ConnectTimeout d > 0 returns a nil
\* client and the "connect timeout" error when the handshake function has not
\* delivered within d; with ConnectTimeout 0 it reports no timeout and
\* returns what the handshake function returned.
DialTimeoutHonoured ==
    /\ connectTimeout = 0 => dialRet.err # ErrConnectTimeout
    /\ dpc = "ret" /\ dialConn # "none" =>
          /\ connectTimeout > 0 /\ fDelay > connectTimeout =>
                dialRet = [client |-> "nil", err |-> ErrConnectTimeout]
          /\ connectTimeout = 0 => dialRet = fResult

DialTimedOut ==
    /\ dpc = "ret"
    /\ connectTimeout > 0
    /\ fDelay > connectTimeout
    /\ dialRet.err = ErrConnectTimeout
    /\ dialConn = "closed"

\* C9: after a failed header read the receiver reaches the end of
\* terminateCalls; shutdown is then set, every call in the pending table has
\* that read error and its done, and no registered call is unresolved.
TeardownTerminatesPending ==
    /\ [](rpc = "exit" =>
            /\ shutdown
            /\ \A s \in DOMAIN pending :
                  callErr[pending[s]] = rerr /\ fired[pending[s]] = 1
            /\ \A c \in Calls :
                  Registered(c) => fired[c] = 1 \/ "cancel" \in res[c])
    /\ (rpc = "term") ~> (rpc = "exit")

PendingCallTerminated ==
    /\ rpc = "exit"
    /\ shutdown
    /\ \E c \in Calls : res[c] = {"terminate"} /\ fired[c] = 1 /\ callErr[c] = rerr

\* C10: a request whose lookup fails is answered with its seq and the error
\* of its case, and the connection stays up: the request loop does not
\* stumble over the stream after it.
LookupErrorKeepsConnection ==
    /\ \A w \in written : w.by = "loop" => w.seq \in readSeqs /\ w.err # NoErr
    /\ Cardinality({findService(m) : m \in {<<"F">>, <<"B", ".", "S">>, <<"F", ".", "N">>}}) = 3
    /\ (\E w \in written : w.by = "loop" /\ w.err \in {ErrIllFormed, ErrNoService, ErrNoMethod})
          => loopErr # ErrMismatch

\* C11: when the preamble ServeConn decoded has another magic number than
\* MagicNumber or a codec without constructor, the server has closed the
\* connection without writing anything on it, no echo and no frame, and it
\* does not enter the request loop.
BadPreambleClosedSilently ==
    /\ hspc \notin {"off", "decode"}
    /\ sopt.magic # MagicNumber \/ sopt.codec \notin NewCodecFuncMap
    => /\ hspc = "closed"
       /\ hconnClosed
       /\ hwrote = <<>>
       /\ hs2c = <<>>

BadMagicSeesEndOfStream ==
    /\ hspc = "closed"
    /\ sopt.magic # MagicNumber
    /\ sopt.codec \in NewCodecFuncMap
    /\ hret = ErrEOF
    /\ hwrote = <<>>

\* C12: the first thing the server writes on a connection is its echo, all
\* frames come after it; a client has sent requests only after it took the
\* echo, and what ServeConn finds in the stream while it decodes the
\* preamble holds no request header or body.
HandshakeOrdering ==
    /\ \A i \in DOMAIN hwrote : (hwrote[i] = "echo") <=> (i = 1)
    /\ hsent > 0 => hcpc = "ready" /\ hret = "client"
    /\ hspc = "decode" => \A i \in DOMAIN hc2s : hc2s[i].kind \notin {"hdr", "body"}
    /\ hcpc = "decode" => \A i \in DOMAIN hs2c : hs2c[i].kind \notin {"hdr", "body"}

RequestServedAfterEcho ==
    /\ hsent >= 1
    /\ Len(hwrote) >= 2
    /\ hwrote[1] = "echo"
    /\ hwrote[2] = "frame"
    /\ hspc = "serve"

\* The siblings in the order they went through the aggregation, those of
\* them that failed and those that succeeded.
failedAt == {k \in DOMAIN observed : serr[observed[k]] # NoErr}
succeededAt == {k \in DOMAIN observed : serr[observed[k]] = NoErr}
firstOf(ks) == CHOOSE k \in ks : \A j \in ks : k <= j

\* C13: Broadcast returns only when every sibling is finished; it returns
\* the error of the first sibling that failed in the order of the
\* aggregation, nil exactly when none failed; the first failure cancels the
\* shared context, after which Broadcast returns without any server having
\* to answer.
BroadcastFirstError ==
    /\ [](bpc = "ret" =>
            /\ \A i \in Siblings : sib[i] = "done"
            /\ (bret = NoErr) <=> (\A i \in Siblings : serr[i] = NoErr)
            /\ failedAt # {} => bret = serr[observed[firstOf(failedAt)]])
    /\ [](e # NoErr => bctx = "cancelled")
    /\ [](\A i \in Siblings : serr[i] = ErrCtx => bctx = "cancelled")
    /\ (e # NoErr) ~> (bpc = "ret")

SiblingAbandonedAfterFailure ==
    /\ bpc = "ret"
    /\ bret = "dial error"
    /\ \E i \in Siblings : serr[i] = ErrCtx

\* C14: in one Broadcast the caller's reply is written at most once, by a
\* sibling that holds the aggregation mutex, with the value of the first
\* sibling that succeeded; only the aggregation changes it, and with a nil
\* reply it is never written.
BroadcastReplyOnce ==
    /\ replyWrites <= 1
    /\ replyNil => replyWrites = 0 /\ breply = 0
    /\ replyWrites = 0 => breply = 0
    /\ \A i \in Siblings : sib[i] = "locked" => bmu = i
    /\ replyWrites >= 1 =>
          /\ succeededAt # {}
          /\ bheld = observed[firstOf(succeededAt)]
          /\ breply = cloned[observed[firstOf(succeededAt)]]
    /\ ~replyNil /\ succeededAt # {} => replyWrites >= 1

LaterSuccessIgnored ==
    /\ bpc = "ret"
    /\ Cardinality(succeededAt) >= 2
    /\ replyWrites = 1
    /\ breply = replyOf(observed[1])
    /\ breply # cloned[observed[2]]

\* C15: a GET returns exactly the addresses that were posted and whose
\* latest POST is less than the timeout ago, all addresses ever posted when
\* the timeout is 0; an address whose latest POST is the timeout or more ago
\* is in no GET.
RegistryLivenessRule ==
    last.method = "GET" =>
        /\ last.got = {a \in DOMAIN lastSeen : timeout = 0 \/ rnow - lastSeen[a] < timeout}
        /\ \A a \in DOMAIN lastSeen :
              timeout > 0 /\ rnow - lastSeen[a] >= timeout => a \notin last.got

SilentServerOmitted ==
    /\ last.method = "GET"
    /\ timeout > 0
    /\ hbAddr \in DOMAIN lastSeen
    /\ hbpc = "stopped"
    /\ hbAddr \notin last.got
    /\ "tcp@B" \in last.got

\* C16: Heartbeat has sent its first POST when it returns, the POSTs after
\* it are one interval apart, and no POST follows one that failed; a
\* duration of 0 makes the interval 4 minutes; while no POST has failed and
\* the interval is smaller than the registry's timeout, every GET after the
\* first POST has the server's address.
HeartbeatKeepsServerAlive ==
    /\ hbpc \in {"loop", "stopped"} => Len(hbPosts) >= 1 /\ hbPosts[1].at = 0
    /\ \A k \in DOMAIN hbPosts :
          k > 1 => hbPosts[k - 1].ok /\ hbPosts[k].at = hbPosts[k - 1].at + hbInterval
    /\ interval(0) = defaultTimeout - 1
    /\ hbpc = "loop" /\ hbInterval < timeout /\ last.method = "GET" => hbAddr \in last.got

SecondHeartbeatSeen ==
    /\ hbpc = "loop"
    /\ Len(hbPosts) = 2
    /\ hbInterval = defaultTimeout - 1
    /\ timeout = defaultTimeout
    /\ rnow > hbInterval
    /\ last.method = "GET"
    /\ hbAddr \in last.got

\* C18: a POST without address answers 500 and a method other than GET and
\* POST answers 405, both leaving the servers as they were; a POST with an
\* address answers 200 and leaves that address started now and every other
\* entry as it was.
RegistryHandlerCases ==
    /\ last.method = "POST" /\ last.addr = "" =>
          last.status = 500 /\ rservers = last.before
    /\ last.method \notin {"", "GET", "POST"} =>
          last.status = 405 /\ rservers = last.before
    /\ last.method = "POST" /\ last.addr # "" =>
          /\ last.status = 200
          /\ DOMAIN rservers = (DOMAIN last.before) \cup {last.addr}
          /\ rservers[last.addr] = rnow
          /\ \A a \in DOMAIN last.before : a # last.addr => rservers[a] = last.before[a]

EntryRefreshed ==
    /\ last.method = "POST"
    /\ last.addr = hbAddr
    /\ hbAddr \in DOMAIN last.before
    /\ "tcp@B" \in DOMAIN last.before
    /\ last.before[hbAddr] < rnow
    /\ rservers[hbAddr] = rnow

\* C17: the list GetAll returned has the length and the elements the server
\* list had when GetAll took the read lock, it keeps them whatever Update
\* does afterwards, and it shares its array with no other slice.
GetAllSnapshot ==
    \A r \in Readers : gpc[r] = "done" =>
        /\ heap[gout[r]] = atLock[r]
        /\ gout[r] # dservers
        /\ \A q \in Readers : q # r => gout[q] # gout[r]

SnapshotOutlivesUpdate ==
    \E r \in Readers :
        /\ gpc[r] = "done"
        /\ updates = MaxUpdates
        /\ Len(heap[gout[r]]) = 2
        /\ heap[dservers] # heap[gout[r]]

\* The goroutines of the server that are at their cc.Write.
serverWriters ==
    (IF spc = "replywrite" THEN {<<"loop", 0>>} ELSE {})
        \cup {<<"worker", s>> : s \in {t \in Calls : wpc[t] = "write"}}
        \cup {<<"dispatcher", s>> : s \in {t \in Calls : hpc[t] = "write"}}

\* C19: whoever is at a codec write holds the send mutex of its side of the
\* connection, on the client the sending call and on the server the request
\* loop, a worker or a timeout branch; so at most one write is in progress
\* on each side.
SendMutexHeld ==
    /\ \A c \in Calls : cpc[c] = "write" => sending = <<"send", c>>
    /\ Cardinality({c \in Calls : cpc[c] = "write"}) <= 1
    /\ \A w \in serverWriters : ssending = w
    /\ Cardinality(serverWriters) <= 1

WriterWaitsForMutex ==
    \E s, t \in Calls :
        /\ s # t
        /\ wpc[s] = "write"
        /\ ssending = <<"worker", s>>
        /\ wpc[t] = "lock" \/ hpc[t] = "lock"

\* C20: the request frames of a client are written in increasing seq order,
\* whatever the order in which the calls are completed.
RequestsWrittenInSeqOrder ==
    \A i, j \in DOMAIN wireLog : i < j => wireLog[i] < wireLog[j]

CompletedOutOfOrder ==
    \E c, d \in Calls :
        /\ wireLog = <<callSeq[c], callSeq[d]>>
        /\ callSeq[c] < callSeq[d]
        /\ res[d] = {"response"}
        /\ fired[c] = 0
        /\ callSeq[c] \in DOMAIN pending

\* C21: IsAvailable is true exactly when neither closing nor shutdown is
\* set; closing is set by Close only and shutdown by terminateCalls only,
\* neither is reset, and terminateCalls leaves closing as it is; a send that
\* starts when one of them is set gets ErrShutdown and its done, and puts
\* nothing in the pending table or on the wire.
ClientFlags ==
    [][/\ IsAvailable <=> ~(closing \/ shutdown)
       /\ closing' # closing => closing' /\ closeRet' # closeRet
       /\ shutdown' # shutdown => shutdown' /\ rpc = "term" /\ rpc' = "exit"
       /\ rpc = "term" /\ rpc' = "exit" => closing' = closing
       /\ \A c \in Calls :
             cpc[c] = "idle" /\ cpc'[c] # "idle" /\ ~IsAvailable =>
                /\ callErr'[c] = ErrShutdown
                /\ fired'[c] = 1
                /\ cpc'[c] = "wait"
                /\ pending' = pending
                /\ c2s' = c2s
      ]_vars

SendRefusedAfterTeardown ==
    /\ shutdown
    /\ ~closing
    /\ ~IsAvailable
    /\ rpc = "exit"
    /\ \E c \in Calls : res[c] = {"refused"} /\ callErr[c] = ErrShutdown

\* C22: the pending table has no entry for a call whose response the
\* receiver has matched, none for a call CallWithTimeout has cancelled, and
\* none at all once terminateCalls has run; every call in it is unresolved.
PendingHoldsUnresolved ==
    /\ rcall # 0 => rhdr.seq \notin DOMAIN pending
    /\ \A c \in Calls : result[c] = ErrCtx => callSeq[c] \notin DOMAIN pending
    /\ rpc = "exit" => DOMAIN pending = {}
    /\ \A s \in DOMAIN pending : res[pending[s]] = {} /\ fired[pending[s]] = 0

\* C23: when serveCodec closes the codec, after its loop has ended, every
\* request it dispatched has a dispatcher that has returned and a response
\* that was written, by the worker or by the timeout branch; once the codec
\* is closed nobody takes the send mutex and no response is written.
CloseAfterDispatchers ==
    [][/\ spc' = "closed" =>
             /\ srvClosed'
             /\ loopErr' # NoErr
             /\ \A s \in Calls : hpc'[s] \in {"none", "done"}
             /\ \A s \in Calls : hpc'[s] = "done" => responses(s)' # {}
             /\ \A s \in Calls : wpc'[s] \notin {"lock", "write"}
             /\ ssending' = Free
       /\ srvClosed => written' = written /\ ssending' = ssending
       /\ srvClosed' # srvClosed => spc = "wait" /\ spc' = "closed"
      ]_vars

ClosedAfterBothResponses ==
    /\ spc = "closed"
    /\ hpc[1] = "done"
    /\ hpc[2] = "done"
    /\ \E w \in responses(1) : w.by = "dispatcher"
    /\ \E w \in responses(2) : w.by = "worker"
    /\ wpc[1] \in {"call", "called"}

\* C24: dial returns the client it finds in the map when that client is
\* available and dials nothing; a client found unavailable is closed and out
\* of the map when dial returns, with a newly dialed client in its place if
\* XDial succeeded; when XDial fails dial returns the error and the map has
\* no entry for the address; every client XDial made that was not closed is
\* the one the map has for its address; Close closes every client of the
\* map and leaves the map empty.
DialCache ==
    [][/\ \A p \in Dialers :
             xpc[p] # "ret" /\ xpc'[p] = "ret" =>
                LET f == xfound'[p]
                    r == xret'[p]
                    a == xaddr[p]
                IN  /\ f.client # 0 /\ f.available =>
                          /\ r = [client |-> f.client, err |-> NoErr]
                          /\ xclients' = xclients
                          /\ xcl' = xcl
                    /\ f.client # 0 /\ ~f.available =>
                          /\ xcl'[f.client].closing
                          /\ cached(a)' # f.client
                          /\ r.client # f.client
                    /\ ~f.available /\ r.err = NoErr =>
                          /\ r.client = Len(xcl')
                          /\ r.client \notin DOMAIN xcl
                          /\ ~xcl'[r.client].shutdown /\ ~xcl'[r.client].closing
                    /\ r.err = NoErr => r.client # 0 /\ cached(a)' = r.client
                    /\ r.err # NoErr => r.client = 0 /\ cached(a)' = 0
       /\ \A k \in DOMAIN xcl' :
             ~xcl'[k].closing =>
                xcl'[k].addr \in DOMAIN xclients' /\ xclients'[xcl'[k].addr] = k
       /\ xcloses' # xcloses =>
             /\ xclients' = <<>>
             /\ \A a \in DOMAIN xclients : xcl'[xclients[a]].closing
      ]_vars

UnavailableClientReplaced ==
    \E p \in Dialers :
        /\ xpc[p] = "ret"
        /\ xfound[p].client # 0
        /\ ~xfound[p].available
        /\ xret[p].err = NoErr
        /\ xret[p].client # xfound[p].client
        /\ xclients[xaddr[p]] = xret[p].client
        /\ xcl[xfound[p].client].closing
        /\ xcloses = 0

\* The round-robin calls of Get that returned a server, in their order.
RECURSIVE roundRobinGets(_)
roundRobinGets(k) ==
    IF k = 0 THEN <<>>
    ELSE IF sgets[k].mode = RoundRobinSelect /\ sgets[k].err = NoErr
         THEN Append(roundRobinGets(k - 1), sgets[k])
         ELSE roundRobinGets(k - 1)

\* C25: Get returns an error for an empty list and for a mode that is
\* neither random nor round robin, otherwise the server at a position of
\* the list as it is then, whatever d.index was left by a longer list;
\* round-robin calls that follow each other on an unchanged list take
\* positions that follow each other cyclically, so n of them in a row take
\* each position of the list once.
GetSelection ==
    /\ \A k \in DOMAIN sgets :
          LET g == sgets[k]
              n == Len(g.servers)
          IN  /\ n = 0 => g.err = ErrNoServers
              /\ g.mode \notin {RandomSelect, RoundRobinSelect} => g.err # NoErr
              /\ n # 0 /\ g.mode \in {RandomSelect, RoundRobinSelect} =>
                    /\ g.err = NoErr
                    /\ g.pos \in 0..(n - 1)
                    /\ g.server = g.servers[g.pos + 1]
              /\ g.err # NoErr => g.server = ""
    /\ LET rr == roundRobinGets(Len(sgets))
       IN  /\ \A k \in DOMAIN rr :
                 k > 1 /\ rr[k].epoch = rr[k - 1].epoch =>
                    rr[k].pos = (rr[k - 1].pos + 1) % Len(rr[k].servers)
           /\ \A k \in DOMAIN rr :
                 LET n == Len(rr[k].servers)
                 IN  k + n - 1 \in DOMAIN rr /\ rr[k + n - 1].epoch = rr[k].epoch =>
                        {rr[j].pos : j \in k..(k + n - 1)} = 0..(n - 1)

RoundRobinCycleOnShorterList ==
    /\ Len(sgets) = 4
    /\ \A k \in 1..4 : sgets[k].mode = RoundRobinSelect
    /\ Len(sgets[1].servers) = 3
    /\ \A k \in 2..4 : Len(sgets[k].servers) = 2 /\ sgets[k].epoch = 1
    /\ sgets[2].index = 2
    /\ <<sgets[2].server, sgets[3].server, sgets[4].server>> = <<"tcp@A", "tcp@B", "tcp@A">>

\* C26: a Refresh, Get or GetAll at a time before lastUpdate + timeout asks
\* no registry and leaves the list and lastUpdate as they are; one at or
\* after it asks the registry; when that fails the call returns the error,
\* without a server, and the list and lastUpdate are as before; when it
\* succeeds lastUpdate is now and the list is that of the header: its
\* addresses in order, none empty, none with a blank at either end.
RefreshRule ==
    [][rdlast'.op \in {"Refresh", "Get", "GetAll"} =>
          LET r == rdlast'
          IN  /\ rdnow < lastUpdate + rdtimeout =>
                    /\ ~r.contacted
                    /\ r.err # ErrFetch
                    /\ rdservers' = rdservers
                    /\ lastUpdate' = lastUpdate
              /\ rdnow >= lastUpdate + rdtimeout => r.contacted
              /\ r.contacted /\ ~r.ok =>
                    /\ r.err = ErrFetch
                    /\ r.out = <<>>
                    /\ rdservers' = rdservers
                    /\ lastUpdate' = lastUpdate
              /\ r.contacted /\ r.ok =>
                    /\ r.err # ErrFetch
                    /\ lastUpdate' = rdnow
                    /\ \A i \in DOMAIN rdservers' :
                          /\ rdservers'[i] # <<>>
                          /\ rdservers'[i][1] # Space
                          /\ rdservers'[i][Len(rdservers'[i])] # Space
                          /\ \A j \in DOMAIN rdservers'[i] : rdservers'[i][j] # Comma
                    /\ r.header = <<>> => rdservers' = <<>>
                    /\ r.header = <<"A">> => rdservers' = << <<"A">> >>
                    /\ r.header = <<"A", ",", "B">> => rdservers' = << <<"A">>, <<"B">> >>
                    /\ r.header = <<" ", "A", ",", " ", ",", "B", " ">> =>
                          rdservers' = << <<"A">>, <<"B">> >>
                    /\ r.header = <<",", " ">> => rdservers' = <<>>
              /\ r.op = "GetAll" /\ r.err = NoErr => r.out = rdservers'
              /\ r.op = "Get" /\ r.err = NoErr =>
                    \E i \in DOMAIN rdservers' : r.out = <<rdservers'[i]>>
      ]_vars

ExpiredListRefetched ==
    /\ rdlast.op = "GetAll"
    /\ rdlast.contacted
    /\ rdlast.ok
    /\ rdlast.header = <<" ", "A", ",", " ", ",", "B", " ">>
    /\ rdlast.out = << <<"A">>, <<"B">> >>
    /\ rdnow = 2
    /\ lastUpdate = rdnow
    /\ rdtimeout = 2

\* C27 as claimed: with a timeout above 0 a GET deletes exactly the entries
\* whose start + timeout is before now and returns all others, one whose
\* start + timeout is now among them, sorted and each once.
GetSweepKeepsBoundary ==
    last.method = "GET" /\ timeout > 0 =>
        /\ DOMAIN rservers = {a \in DOMAIN last.before : ~(last.before[a] + timeout < rnow)}
        /\ {last.list[i] : i \in DOMAIN last.list} = DOMAIN rservers
        /\ \A i, j \in DOMAIN last.list : i < j => Less(last.list[i], last.list[j])

\* C27, amended: with a timeout above 0 a GET deletes exactly the entries
\* whose start + timeout is now or before now and returns all others; the
\* entries kept are as they were; the addresses returned are sorted, each
\* once.
GetSweep ==
    last.method = "GET" /\ timeout > 0 =>
        /\ DOMAIN rservers = {a \in DOMAIN last.before : last.before[a] + timeout > rnow}
        /\ \A a \in DOMAIN rservers : rservers[a] = last.before[a]
        /\ {last.list[i] : i \in DOMAIN last.list} = DOMAIN rservers
        /\ \A i, j \in DOMAIN last.list : i < j => Less(last.list[i], last.list[j])

EntryAtExpirySwept ==
    /\ last.method = "GET"
    /\ timeout > 0
    /\ hbAddr \in DOMAIN last.before
    /\ last.before[hbAddr] + timeout = rnow
    /\ hbAddr \notin DOMAIN rservers
    /\ last.list = <<"tcp@B">>

\* C28: a request whose argument body does not decode is answered by the
\* request loop with its seq and the decode error, and that alone does not
\* end the loop; a response with the error a method returned carries that
\* method's message, the call gets that message as its Error, the receiver
\* goes on reading, and no other call is touched.
ErrorsAnsweredAndDelivered ==
    [][/\ \A s \in Calls :
             reqErr'[s] = ErrMismatch =>
                /\ findService(reqSm'[s]) = NoErr
                /\ hpc'[s] = "none"
       /\ \A w \in written' : w.err = ErrMismatch => w.by = "loop" /\ w.seq \in readSeqs'
       /\ spc = "read" /\ spc' = "reply" /\ reqErr'[scur'] = ErrMismatch => loopErr' = NoErr
       /\ spc = "replywrite" /\ spc' # spc /\ reqErr[scur] = ErrMismatch => spc' = "read"
       /\ \A w \in written' :
             w.by = "worker" =>
                /\ w.err = methodResult(reqSm'[w.seq])
                /\ \A i \in DOMAIN s2c' : s2c'[i].seq = w.seq => s2c'[i].err = w.err
       /\ rpc = "body" /\ rpc' # "body" /\ rcall # 0 /\ rhdr.err # NoErr =>
             /\ callErr'[rcall] = rhdr.err
             /\ rpc' = "read"
             /\ pending' = pending
             /\ \A d \in Calls :
                   d # rcall =>
                      /\ callErr'[d] = callErr[d]
                      /\ fired'[d] = fired[d]
                      /\ replyW'[d] = replyW[d]
      ]_vars

\* C29: a goroutine of the client that holds one of the two mutexes when it
\* takes the other holds sending and takes mu; a done() of a call of Call or
\* CallWithTimeout finds room in its channel; the receiver that has a header
\* gets back to reading or to terminateCalls, and terminateCalls gets to its
\* end, where the receiver holds no mutex; a caller inside send gets out of
\* it with sending released.
ClientLocksNoDeadlock ==
    /\ [](korder \subseteq {<<"sending", "mu">>})
    /\ [](\A c \in Calls : kpc[c] \in {"refused", "failed"} => kdone[c] < DoneCap)
    /\ [](kpc[Receiver] = "body" /\ krcall # 0 => kdone[krcall] < DoneCap)
    /\ [](kpc[Receiver] = "loop" => \A c \in kpending : kdone[c] < DoneCap)
    /\ [](kpc[Receiver] \in {"read", "remove", "body", "term", "exit"} => holds(Receiver) = {})
    /\ [](\A c \in Calls : kpc[c] \in {"idle", "wait", "ret"} => holds(c) = {})
    /\ (kpc[Receiver] \in {"remove", "body"}) ~> (kpc[Receiver] \in {"read", "term"})
    /\ (kpc[Receiver] = "term") ~> (kpc[Receiver] = "exit")
    /\ \A c \in Calls : (kpc[c] \in {"register", "refused", "write", "remove", "failed"})
                            ~> (kpc[c] = "wait")

PendingCallsTerminatedUnderLocks ==
    /\ kpc[Receiver] = "exit"
    /\ kshutdown
    /\ korder = {<<"sending", "mu">>}
    /\ \E c \in Calls : c \in kpending /\ kdone[c] = 1
    /\ \E c \in Calls : c \notin kpending /\ kpc[c] = "wait" /\ kdone[c] = 1
    /\ \A l \in Mutexes : klock[l] = 0

\* C30: once CallWithTimeout has returned the cancellation error for a call,
\* no later step writes that call's reply slot or its error field.
CancelledCallNeverWritten ==
    [][\A c \in Calls :
          result[c] = ErrCtx /\ cpc[c] = "ret"
              => replyW'[c] = replyW[c] /\ callErr'[c] = callErr[c]]_vars

\* C31: when the receiver fails to decode the body of a response, the call of
\* that response gets the "reading body" error and nothing else changes
\* course: the receiver goes back to reading headers, the client is as
\* available as it was, and no other call is ever completed with the decode
\* error, nor the client shut down because of it.
BodyFailureAffectsOneCall ==
    /\ [][rpc = "body" /\ rcall # 0 /\ callErr[rcall] # ErrReadingBody
              /\ callErr'[rcall] = ErrReadingBody
              => rpc' = "read" /\ IsAvailable' = IsAvailable]_vars
    /\ [](\A c \in Calls : "terminate" \in res[c] => callErr[c] # ErrMismatch)
    /\ [](shutdown => rerr # ErrMismatch)

\* C32: a worker whose service method has returned is never left waiting to
\* hand over its method-return or response-sent signal once the dispatcher of
\* its request has returned: the dispatcher receives no more, so such a
\* worker would wait forever.
NoWorkerLeftBlocked ==
    \A s \in Calls : hpc[s] = "done" => wpc[s] \notin {"called", "sent"}

================================================================================
